---- MODULE Spec2Model ----
(***************************************************************************)
(* A model of dvara, the MongoDB wire-protocol proxy.                      *)
(*                                                                         *)
(*  SpecPool     the resource pool (rpool): Pool.manage, the coordinator,  *)
(*               its close workers, the idle ticker, and goroutines that   *)
(*               call Acquire / Release / Discard / Close.                 *)
(*  SpecSession  one client session of a Proxy: Proxy.clientServeLoop,     *)
(*               proxyMessage, ProxyQuery.Proxy and the getLastError       *)
(*               rewriter, with Proxy.stop running beside it.              *)
(*  SpecRestart  ReplicaSet.Restart called from several goroutines, with   *)
(*               the steps of ReplicaSet.stop and ReplicaSet.Start.        *)
(*  SpecRewrite  IsMasterResponseRewriter.Rewrite applied to one reply.    *)
(*  SpecStatus   ReplSetGetStatusResponseRewriter.Rewrite applied to one   *)
(*               reply.                                                    *)
(*  SpecCompare  ReplicaSetState.Equal applied to two snapshots.           *)
(*  SpecDiscover ReplicaSetStateCreator.FromAddrs over a list of seeds.    *)
(*  SpecAdd      ReplicaSet.Start registering proxies with ReplicaSet.add. *)
(*  SpecStop     ReplicaSet.stop called more than once, Proxy.stop on each *)
(*               proxy, and a session on each proxy.                       *)
(*                                                                         *)
(* The variables of the components a specification does not exercise stay  *)
(* at their parked values.                                                 *)
(***************************************************************************)
EXTENDS Integers, Sequences, FiniteSets, TLC

(***************************************************************************)
(* Bounds of the model.                                                    *)
(***************************************************************************)
NumCallers == 3      \* goroutines using the pool
MaxRes == 2          \* resources Pool.New can create successfully
MaxTime == 1         \* clock readings 0..MaxTime
MaxMax == 2          \* Pool.Max is drawn from 1..MaxMax
MaxMsgs == 3         \* messages the client of a session sends
NumConns == 2        \* server connections the session's pool can hand out
NumRestarters == 3   \* goroutines that call ReplicaSet.Restart
MaxHosts == 2        \* entries of hosts in an isMaster reply
MaxPassives == 1     \* entries of passives in an isMaster reply
MaxMembers == 2      \* members in a replSetGetStatus reply
MaxSnapMembers == 2  \* members of lastRS in a snapshot
MaxSnapHosts == 2    \* hosts of lastIM in a snapshot
MaxSeeds == 3        \* seed addresses given to FromAddrs
MaxProxies == 2      \* proxies a Start registers
MaxStartMembers == 2 \* members of lastRS in the snapshot Start takes
NumStopProxies == 1  \* proxies ReplicaSet.stop stops
NumStopCalls == 2    \* calls of ReplicaSet.stop
MaxAccepts == 3      \* connections the clients open to one proxy
MaxPerClient == 1    \* ReplicaSet.MaxPerClientConnections

(***************************************************************************)
(* Pool configuration that is fixed in the model.                          *)
(***************************************************************************)
IdleTimeout == 1     \* Pool.IdleTimeout, in clock units
ClosePoolSize == 1   \* Pool.ClosePoolSize

Callers == 1..NumCallers
Workers == 1..ClosePoolSize
ResIds == 1..MaxRes

NoRes == 0           \* a nil io.Closer
NoTick == -1         \* nothing buffered in idleTicker.C
NoCaller == 0        \* a nil response channel

VARIABLES
    \* ---- Pool configuration (fields of Pool)
    Max, MinIdle,
    \* ---- locals of Pool.manage
    resources,      \* []entry: the idle resources, least recently released first
    outResources,   \* map[io.Closer]struct{}: resources checked out
    out,            \* uint: count of checked out resources and slots
    waiting,        \* list.List of response channels of blocked Acquire calls
    closed,         \* bool
    closeResponse,  \* chan error of the Close call being served
    mgr,            \* where Pool.manage is: select, discard2, draining, returned, dead
    pendClose,      \* resources manage is sending on the closers channel, in order
    \* ---- close workers
    worker,         \* worker -> the resource it is closing, or NoRes
    closeCount,     \* resource -> number of times its Close has been invoked
    \* ---- clock and idle ticker
    now,            \* klock.Now()
    tickC,          \* idleTicker.C (buffer of one): the pending tick, or NoTick
    tickerStopped,  \* idleTicker.Stop() was called
    \* ---- goroutines calling the pool
    cpc,            \* caller -> position in Acquire / Release / Discard / Close
    held,           \* caller -> the resource it holds
    nextId,         \* the next resource Pool.New creates
    \* ---- history
    blockedOrder,   \* callers blocked in Acquire, in the order their requests arrived
    lastServed,     \* the caller most recently resumed from the waiting list, while
                    \* it is in that Acquire or holds what it got
    acqAfterClose,  \* outcomes of the Acquire calls made after manage saw Close
    lateReleased,   \* resources released after Close with no Acquire waiting
    closeReturned,  \* a Close call has returned nil
    \* ---- a Proxy and one of its client sessions (clientServeLoop)
    proxyClosed,    \* p.closed has been closed (Proxy.stop)
    serverPool,     \* p.serverPool: open, closing (Close called), closed (Close returned)
    spc,            \* where clientServeLoop is
    hdr,            \* h: the message whose header was read last
    serverConn,     \* serverConn, or NoConn
    lastError,      \* lastError: the session's getLastError cache
    sent,           \* messages the client has sent
    \* ---- history of the session
    last,           \* what proxyMessage did for the last message it proxied
    prevKind,       \* the kind of the message proxied before that one
    gleTimedOut,    \* gleClientReadHeader timed out since the last message
    poolOp,         \* Acquire, Release or Discard was called since the last message
    lastRead,       \* how the last clientReadHeader returned
    lastFail,       \* how the session dealt with the proxyMessage that failed
    poolCalls,      \* the session's pool calls since its last Acquire that gave a resource
    \* ---- ReplicaSet and the goroutines calling Restart
    restarter,      \* r.restarter: the sync.Once in place
    onces,          \* sync.Once -> fresh, running, done
    rpc,            \* goroutine -> where it is in Restart
    myOnce,         \* goroutine -> the sync.Once it read from r.restarter
    realToProxy,    \* r.realToProxy, for the one mongo address
    proxies,        \* r.proxies
    started,        \* proxies that are started and not stopped
    \* ---- IsMasterResponseRewriter.Rewrite on one reply
    rwPc,           \* ready, done
    rwReply,        \* the reply the server sent
    rwMapper,       \* ProxyMapper: real address -> mapped, ignored, unknown
    rwSameIM,       \* what ReplicaStateCompare.SameIM answers
    rwFault,        \* the read or write that fails, if any
    rwClient,       \* the error returned and the reply written to the client
    \* ---- ReplicaSetState.Equal on two snapshots
    cmpPc,          \* ready, done
    cmpA,           \* the receiver r
    cmpB,           \* the argument o
    cmpRes,         \* what Equal returned
    \* ---- ReplicaSetStateCreator.FromAddrs
    dNodes,         \* addrs: for each seed address, the node that answers there
    dName,          \* replicaSetName
    dIdx,           \* the index of the address the loop is at
    dRef,           \* r: the ReplicaSetState established so far
    dRes,           \* the error FromAddrs returned, once it has returned
    dSeen,          \* for each address visited, what NewReplicaSetState gave
    \* ---- ReplicaSet.Start building the maps with ReplicaSet.add
    aPc,            \* adding, registered
    aProxyToReal,   \* r.proxyToReal
    aRealToProxy,   \* r.realToProxy
    aProxies,       \* r.proxies
    aIgnored,       \* r.ignoredReal
    aLast,          \* the last call of add: its arguments, error and the maps before
    aState,         \* r.lastState: singleAddr, and lastRS (nil, or its members)
    \* ---- ReplicaSet.stop and Proxy.stop, with one session on each proxy
    stListener,     \* proxy -> open, closed: p.ClientListener
    stClosed,       \* proxy -> how often close(p.closed) was executed
    stPool,         \* proxy -> open, closing, closed: p.serverPool
    stPoolClose,    \* proxy -> how often p.serverPool.Close was called
    stSess,         \* proxy -> where its session is
    stPc,           \* call of ReplicaSet.stop, proxy -> where p.stop is
    stCall,         \* call of ReplicaSet.stop -> its state, hard and error
    stStart,        \* call of ReplicaSet.stop -> where the Start that Restart runs
                    \* after it is: none, writing (the maps), written
    \* ---- Proxy.clientAcceptLoop, its sessions and one Proxy.stop
    acListener,     \* open, closed: p.ClientListener
    acLoop,         \* where clientAcceptLoop is: add, accept, exited
    acWg,           \* the counter of p.wg
    acCounts,       \* p.maxPerClientConnections.counts[remoteIP]
    acConn,         \* connection -> none, started, serving, rejected, ended
    acClosed,       \* p.closed is closed
    acStop          \* where p.stop is, and its argument hard

poolVars == <<Max, MinIdle, resources, outResources, out, waiting, closed,
              closeResponse, mgr, pendClose, worker, closeCount, now, tickC,
              tickerStopped, cpc, held, nextId, blockedOrder, lastServed,
              acqAfterClose, lateReleased, closeReturned>>

sessionVars == <<proxyClosed, serverPool, spc, hdr, serverConn, lastError, sent,
                 last, prevKind, gleTimedOut, poolOp, lastRead, lastFail,
                 poolCalls>>

restartVars == <<restarter, onces, rpc, myOnce, realToProxy, proxies, started>>

rewriteVars == <<rwPc, rwReply, rwMapper, rwSameIM, rwFault, rwClient>>

compareVars == <<cmpPc, cmpA, cmpB, cmpRes>>

discoverVars == <<dNodes, dName, dIdx, dRef, dRes, dSeen>>

addVars == <<aPc, aProxyToReal, aRealToProxy, aProxies, aIgnored, aLast, aState>>

stopVars == <<stListener, stClosed, stPool, stPoolClose, stSess, stPc, stCall,
              stStart>>

acceptVars == <<acListener, acLoop, acWg, acCounts, acConn, acClosed, acStop>>

extraVars == <<stopVars, acceptVars>>

otherVars == <<compareVars, discoverVars, addVars, extraVars>>

vars == <<poolVars, sessionVars, restartVars, rewriteVars, otherVars>>

\* what a step of the pool leaves alone outside the pool
PoolFrame == UNCHANGED <<sessionVars, restartVars, rewriteVars, otherVars>>
SessionFrame == UNCHANGED <<poolVars, restartVars, rewriteVars, otherVars>>
RestartFrame == UNCHANGED <<poolVars, sessionVars, rewriteVars, otherVars>>
RewriteFrame == UNCHANGED <<poolVars, sessionVars, restartVars, otherVars>>
CompareFrame ==
    UNCHANGED <<poolVars, sessionVars, restartVars, rewriteVars, discoverVars, addVars,
                extraVars>>
DiscoverFrame ==
    UNCHANGED <<poolVars, sessionVars, restartVars, rewriteVars, compareVars, addVars,
                extraVars>>
AddFrame ==
    UNCHANGED <<poolVars, sessionVars, restartVars, rewriteVars, compareVars, discoverVars,
                extraVars>>
StopFrame ==
    UNCHANGED <<poolVars, sessionVars, restartVars, rewriteVars, compareVars, discoverVars,
                addVars, acceptVars>>
AcceptFrame ==
    UNCHANGED <<poolVars, sessionVars, restartVars, rewriteVars, compareVars, discoverVars,
                addVars, stopVars>>

(***************************************************************************)
(* Parked values.                                                          *)
(***************************************************************************)
PoolParked ==
    /\ Max = 1
    /\ MinIdle = 0
    /\ resources = <<>>
    /\ outResources = {}
    /\ out = 0
    /\ waiting = <<>>
    /\ closed = FALSE
    /\ closeResponse = NoCaller
    /\ mgr = "select"
    /\ pendClose = <<>>
    /\ worker = [w \in Workers |-> NoRes]
    /\ closeCount = [r \in ResIds |-> 0]
    /\ now = 0
    /\ tickC = NoTick
    /\ tickerStopped = FALSE
    /\ cpc = [c \in Callers |-> "idle"]
    /\ held = [c \in Callers |-> NoRes]
    /\ nextId = 1
    /\ blockedOrder = <<>>
    /\ lastServed = NoCaller
    /\ acqAfterClose = {}
    /\ lateReleased = {}
    /\ closeReturned = FALSE

SessionParked ==
    /\ proxyClosed = FALSE
    /\ serverPool = "open"
    /\ spc = "parked"
    /\ hdr = "none"
    /\ serverConn = 0
    /\ lastError = "none"
    /\ sent = 0
    /\ last = "none"
    /\ prevKind = "none"
    /\ gleTimedOut = FALSE
    /\ poolOp = FALSE
    /\ lastRead = "none"
    /\ lastFail = "none"
    /\ poolCalls = <<>>

RestartParked ==
    /\ restarter = 0
    /\ onces = <<>>
    /\ rpc = <<>>
    /\ myOnce = <<>>
    /\ realToProxy = 0
    /\ proxies = {}
    /\ started = {}

CompareParked ==
    /\ cmpPc = "parked"
    /\ cmpA = "none"
    /\ cmpB = "none"
    /\ cmpRes = FALSE

DiscoverParked ==
    /\ dNodes = <<>>
    /\ dName = ""
    /\ dIdx = 0
    /\ dRef = "none"
    /\ dRes = "parked"
    /\ dSeen = <<>>

AddParked ==
    /\ aPc = "parked"
    /\ aProxyToReal = <<>>
    /\ aRealToProxy = <<>>
    /\ aProxies = {}
    /\ aIgnored = {}
    /\ aLast = "none"
    /\ aState = "none"

StopParked ==
    /\ stListener = <<>>
    /\ stClosed = <<>>
    /\ stPool = <<>>
    /\ stPoolClose = <<>>
    /\ stSess = <<>>
    /\ stPc = <<>>
    /\ stCall = <<>>
    /\ stStart = <<>>

AcceptParked ==
    /\ acListener = "open"
    /\ acLoop = "parked"
    /\ acWg = 0
    /\ acCounts = 0
    /\ acConn = <<>>
    /\ acClosed = FALSE
    /\ acStop = "none"

ExtraParked == StopParked /\ AcceptParked

OthersParked == CompareParked /\ DiscoverParked /\ AddParked /\ ExtraParked

RewriteParked ==
    /\ rwPc = "parked"
    /\ rwReply = "none"
    /\ rwMapper = <<>>
    /\ rwSameIM = TRUE
    /\ rwFault = "none"
    /\ rwClient = "none"
    /\ OthersParked

(***************************************************************************)
(* Helpers on sequences.                                                   *)
(***************************************************************************)
Front(s) == Head(s)

RECURSIVE SeqResources(_)
SeqResources(es) ==
    IF es = <<>> THEN <<>> ELSE <<Head(es).resource>> \o SeqResources(Tail(es))

\* (variant used to test C22: a resumed Acquire stays in the waiting list)
RemoveNothing(s, x) == s

RemoveFrom(s, x) == SelectSeq(s, LAMBDA y: y # x)

\* uint decrement: 0 - 1 wraps to the largest uint (stood for by 2^31 - 1)
UintMax == 2^31 - 1
UintDec(n) == IF n = 0 THEN UintMax ELSE n - 1

(***************************************************************************)
(* A caller is                                                             *)
(*   idle          outside the pool's functions                            *)
(*   waiting       in Acquire, blocked in c := <-r with its request queued *)
(*   new           in Acquire, calling p.New() for a slot it was given     *)
(*   holding       returned from Acquire with a resource                   *)
(*   closing       in Close, blocked in <-r                                *)
(*   panicAcquire  panicked in Acquire (send on closed channel)            *)
(*   panicClose    panicked in Close (send on closed channel)              *)
(*   panicWrong    panicked with errWrongPool                              *)
(* A send on p.acquire, p.new, p.release, p.discard or p.close completes   *)
(* when manage receives it, so a call and the case of manage's select that *)
(* receives it are one step.  The program has crashed once a goroutine     *)
(* panicked.                                                               *)
(***************************************************************************)
Alive == \A c \in Callers : cpc[c] \notin {"panicAcquire", "panicClose", "panicWrong"}

\* the internal channels are closed once manage has returned
ChannelsClosed == mgr = "returned"

(***************************************************************************)
(* Pool.manage: top of the for loop.                                       *)
(***************************************************************************)
\* (variant used to test C39: manage never leaves its loop)
ShutdownCondNever == FALSE

\* (variant used to test C7: the check forgets the checked-out count)
ShutdownCondIgnoringOut == closed /\ Len(waiting) = 0

ShutdownCond == closed /\ out = 0 /\ Len(waiting) = 0

\* manage is blocked in its select
InSelect == Alive /\ mgr = "select" /\ pendClose = <<>> /\ ~ShutdownCond

\* (variant used to test C1: the limit is compared off by one)
AtMaxOffByOne(o) == o = Max + 1

\* (variant used to test C24: an Acquire blocks one below the limit)
AtMaxEarly(o) == o >= Max - 1

\* out == p.Max
AtMax(o) == o = Max

InitPool ==
    /\ Max \in 1..MaxMax
    /\ MinIdle \in 0..(Max - 1)
    /\ resources = <<>>
    /\ outResources = {}
    /\ out = 0
    /\ waiting = <<>>
    /\ closed = FALSE
    /\ closeResponse = NoCaller
    /\ mgr = "select"
    /\ pendClose = <<>>
    /\ worker = [w \in Workers |-> NoRes]
    /\ closeCount = [r \in ResIds |-> 0]
    /\ now = 0
    /\ tickC = NoTick
    /\ tickerStopped = FALSE
    /\ cpc = [c \in Callers |-> "idle"]
    /\ held = [c \in Callers |-> NoRes]
    /\ nextId = 1
    /\ blockedOrder = <<>>
    /\ lastServed = NoCaller
    /\ acqAfterClose = {}
    /\ lateReleased = {}
    /\ closeReturned = FALSE

(***************************************************************************)
(* Pool.manage: the cases of the select.                                   *)
(***************************************************************************)

\* (variant used to test C8: the most recent waiter is resumed)
BackWaiter(w) == w[Len(w)]

\* waiting.Front()
FrontWaiter(w) == Front(w)

\* the entry an Acquire takes from the idle list: resources[cl-1]
TakeIdle(es) == es[Len(es)]

\* Acquire, and case r := <-p.acquire
ManageAcquire(c) ==
    /\ InSelect
    /\ cpc[c] = "idle"
    /\ IF closed
         THEN \* new acquire calls are rejected: Acquire returns errPoolClosed
              UNCHANGED <<resources, outResources, out, waiting, blockedOrder,
                          cpc, held>>
       ELSE IF Len(resources) > 0
         THEN \* acquire from pool
              LET e == TakeIdle(resources) IN
              /\ outResources' = outResources \cup {e.resource}
              /\ cpc' = [cpc EXCEPT ![c] = "holding"]
              /\ held' = [held EXCEPT ![c] = e.resource]
              /\ resources' = SelectSeq(resources, LAMBDA x : x # e)
              /\ out' = out + 1
              /\ UNCHANGED <<waiting, blockedOrder>>
       ELSE IF AtMax(out)
         THEN \* max resources already in use, need to block & wait
              /\ waiting' = Append(waiting, c)
              /\ blockedOrder' = Append(blockedOrder, c)
              /\ cpc' = [cpc EXCEPT ![c] = "waiting"]
              /\ UNCHANGED <<resources, outResources, out, held>>
         ELSE \* the caller makes a new resource; the slot counts as checked out
              /\ out' = out + 1
              /\ cpc' = [cpc EXCEPT ![c] = "new"]
              /\ UNCHANGED <<resources, outResources, waiting, blockedOrder, held>>
    /\ UNCHANGED <<Max, MinIdle, closed, closeResponse, mgr, pendClose, worker,
                   closeCount, now, tickC, tickerStopped, nextId, closeReturned>>
    /\ acqAfterClose' = IF closed THEN acqAfterClose \cup {"errPoolClosed"}
                                ELSE acqAfterClose
    /\ UNCHANGED <<lastServed, lateReleased>>
    /\ PoolFrame

\* Acquire after manage has returned: p.acquire <- r panics
AcquireOnClosed(c) ==
    /\ Alive
    /\ ChannelsClosed
    /\ cpc[c] = "idle"
    /\ cpc' = [cpc EXCEPT ![c] = "panicAcquire"]
    /\ UNCHANGED <<Max, MinIdle, resources, outResources, out, waiting, closed,
                   closeResponse, mgr, pendClose, worker, closeCount, now, tickC,
                   tickerStopped, held, nextId, blockedOrder, closeReturned>>
    /\ acqAfterClose' = acqAfterClose \cup {"panic"}
    /\ UNCHANGED <<lastServed, lateReleased>>
    /\ PoolFrame

\* Acquire: p.New() succeeded, p.new <- c, and case c := <-p.new
ManageNew(c) ==
    /\ InSelect
    /\ cpc[c] = "new"
    /\ nextId <= MaxRes
    /\ nextId' = nextId + 1
    /\ outResources' = outResources \cup {nextId}
    /\ held' = [held EXCEPT ![c] = nextId]
    /\ cpc' = [cpc EXCEPT ![c] = "holding"]
    /\ UNCHANGED <<Max, MinIdle, resources, out, waiting, closed, closeResponse,
                   mgr, pendClose, worker, closeCount, now, tickC, tickerStopped,
                   blockedOrder, closeReturned>>
    /\ UNCHANGED <<lastServed, acqAfterClose, lateReleased>>
    /\ PoolFrame

\* Release, and case rr := <-p.release
ManageRelease(c) ==
    /\ InSelect
    /\ cpc[c] = "holding"
    /\ IF held[c] \notin outResources
         THEN \* errWrongPool: the caller panics and manage returns
              /\ cpc' = [cpc EXCEPT ![c] = "panicWrong"]
              /\ mgr' = "dead"
              /\ UNCHANGED <<resources, outResources, out, waiting, held,
                             pendClose, blockedOrder, lastServed, lateReleased>>
         ELSE /\ mgr' = mgr
              /\ IF Len(waiting) > 0
                   THEN \* pass it to someone who's waiting
                        LET r == FrontWaiter(waiting) IN
                        /\ waiting' = RemoveFrom(waiting, r)
                        /\ blockedOrder' = RemoveFrom(blockedOrder, r)
                        /\ cpc' = [cpc EXCEPT ![c] = "idle", ![r] = "holding"]
                        /\ held' = [held EXCEPT ![c] = NoRes, ![r] = held[c]]
                        /\ lastServed' = r
                        /\ UNCHANGED <<resources, outResources, out, pendClose,
                                       lateReleased>>
                   ELSE \* no longer out
                        /\ cpc' = [cpc EXCEPT ![c] = "idle"]
                        /\ held' = [held EXCEPT ![c] = NoRes]
                        /\ out' = UintDec(out)
                        /\ outResources' = outResources \ {held[c]}
                        /\ lastServed' = IF lastServed = c THEN NoCaller ELSE lastServed
                        /\ IF closed
                             THEN \* schedule it to be closed
                                  /\ pendClose' = <<held[c]>>
                                  /\ resources' = resources
                                  /\ lateReleased' = lateReleased \cup {held[c]}
                             ELSE \* put it back in our pool
                                  /\ resources' = Append(resources,
                                        [resource |-> held[c], use |-> now])
                                  /\ pendClose' = pendClose
                                  /\ lateReleased' = lateReleased
                        /\ UNCHANGED <<waiting, blockedOrder>>
    /\ UNCHANGED <<Max, MinIdle, closed, closeResponse, worker, closeCount, now,
                   tickC, tickerStopped, nextId, closeReturned>>
    /\ UNCHANGED acqAfterClose
    /\ PoolFrame

\* Discard, and case rr := <-p.discard, first half: the resource is handed to
\* the closers.  The send on closers blocks until a close worker takes it; the
\* second half runs after that.
ManageDiscard(c) ==
    /\ InSelect
    /\ cpc[c] = "holding"
    /\ IF held[c] \notin outResources
         THEN /\ cpc' = [cpc EXCEPT ![c] = "panicWrong"]
              /\ mgr' = "dead"
              /\ UNCHANGED <<outResources, held, pendClose>>
         ELSE /\ cpc' = [cpc EXCEPT ![c] = "idle"]
              /\ held' = [held EXCEPT ![c] = NoRes]
              /\ outResources' = outResources \ {held[c]}
              /\ pendClose' = <<held[c]>>
              /\ mgr' = "discard2"
    /\ UNCHANGED <<Max, MinIdle, resources, out, waiting, closed, closeResponse,
                   worker, closeCount, now, tickC, tickerStopped, nextId,
                   blockedOrder, closeReturned>>
    /\ lastServed' = IF lastServed = c THEN NoCaller ELSE lastServed
    /\ UNCHANGED <<acqAfterClose, lateReleased>>
    /\ PoolFrame

\* (variant used to test C25: the slot of a discarded resource is dropped
\* even when an Acquire is waiting for it)
DiscardSlotDropping(cpcNow) ==
    /\ out' = UintDec(out)
    /\ cpc' = cpcNow
    /\ lastServed' = IF lastServed # NoCaller /\ cpcNow[lastServed] = "idle"
                        THEN NoCaller ELSE lastServed
    /\ UNCHANGED <<waiting, blockedOrder>>

\* case rr := <-p.discard, second half: give the slot to a waiter or drop it.
\* cpcNow is the callers' positions before the waiter is resumed.
DiscardSlot(cpcNow) ==
    IF Len(waiting) > 0
      THEN \* we can make a new one if someone is waiting
           LET r == FrontWaiter(waiting) IN
           /\ waiting' = RemoveFrom(waiting, r)
           /\ blockedOrder' = RemoveFrom(blockedOrder, r)
           /\ cpc' = [cpcNow EXCEPT ![r] = "new"]
           /\ lastServed' = r
           /\ out' = out
      ELSE \* otherwise we lost a resource and dont need a new one right away
           /\ out' = UintDec(out)
           /\ cpc' = cpcNow
           /\ lastServed' = IF lastServed # NoCaller /\ cpcNow[lastServed] = "idle"
                               THEN NoCaller ELSE lastServed
           /\ UNCHANGED <<waiting, blockedOrder>>

ManageDiscardSlot ==
    /\ Alive
    /\ mgr = "discard2"
    /\ pendClose = <<>>
    /\ DiscardSlot(cpc)
    /\ mgr' = "select"
    /\ UNCHANGED <<Max, MinIdle, resources, outResources, closed, closeResponse,
                   pendClose, worker, closeCount, now, tickC, tickerStopped,
                   held, nextId, closeReturned>>
    /\ UNCHANGED <<acqAfterClose, lateReleased>>
    /\ PoolFrame

\* Acquire: p.New() failed, p.discard <- returnResource{resource: newSentinel},
\* and case rr := <-p.discard with rr.resource == newSentinel.  Acquire returns
\* New's error.
ManageDiscardSentinel(c) ==
    /\ InSelect
    /\ cpc[c] = "new"
    /\ DiscardSlot([cpc EXCEPT ![c] = "idle"])
    /\ UNCHANGED <<Max, MinIdle, resources, outResources, closed, closeResponse,
                   mgr, pendClose, worker, closeCount, now, tickC, tickerStopped,
                   held, nextId, closeReturned>>
    /\ UNCHANGED <<acqAfterClose, lateReleased>>
    /\ PoolFrame

\* the number of entries the idle tick closes: the leading entries of
\* resources[:eligibleOffset] that have been idle for IdleTimeout at tick time
RECURSIVE IdleLen(_, _, _)
IdleLen(es, eligibleOffset, tick) ==
    IF eligibleOffset <= 0 \/ es = <<>> THEN 0
    ELSE IF tick - Head(es).use < IdleTimeout THEN 0
    ELSE 1 + IdleLen(Tail(es), eligibleOffset - 1, tick)

\* (variant used to test C26: the MinIdle floor is not applied)
EligibleOffsetNoFloor(es) == Len(es)

\* len(resources) - int(p.MinIdle)
EligibleOffset(es) == Len(es) - MinIdle

\* case now := <-idleTicker.C
ManageIdleTick ==
    /\ InSelect
    /\ tickC # NoTick
    /\ tickC' = NoTick
    /\ LET eligibleOffset == EligibleOffset(resources)
           idleLen == IdleLen(resources, eligibleOffset, tickC)
       IN  IF eligibleOffset <= 0
             THEN UNCHANGED <<resources, pendClose>>
             ELSE /\ pendClose' = SeqResources(SubSeq(resources, 1, idleLen))
                  /\ resources' = SubSeq(resources, idleLen + 1, Len(resources))
    /\ UNCHANGED <<Max, MinIdle, outResources, out, waiting, closed, closeResponse,
                   mgr, worker, closeCount, now, tickerStopped, cpc, held,
                   nextId, blockedOrder, closeReturned>>
    /\ UNCHANGED <<lastServed, acqAfterClose, lateReleased>>
    /\ PoolFrame

\* Close, and case r := <-p.close
ManageClose(c) ==
    /\ InSelect
    /\ cpc[c] = "idle"
    /\ IF closed
         THEN \* cant call close if already closing: Close returns errCloseAgain
              UNCHANGED <<closed, tickerStopped, pendClose, closeResponse, cpc>>
         ELSE /\ closed' = TRUE
              /\ tickerStopped' = TRUE
              \* close idle; the entries stay in resources
              /\ pendClose' = SeqResources(resources)
              /\ closeResponse' = c
              /\ cpc' = [cpc EXCEPT ![c] = "closing"]
    /\ UNCHANGED <<Max, MinIdle, resources, outResources, out, waiting, mgr,
                   worker, closeCount, now, tickC, held, nextId, blockedOrder,
                   closeReturned>>
    /\ UNCHANGED <<lastServed, acqAfterClose, lateReleased>>
    /\ PoolFrame

\* Close after manage has returned: p.close <- r panics
CloseOnClosed(c) ==
    /\ Alive
    /\ ChannelsClosed
    /\ cpc[c] = "idle"
    /\ cpc' = [cpc EXCEPT ![c] = "panicClose"]
    /\ UNCHANGED <<Max, MinIdle, resources, outResources, out, waiting, closed,
                   closeResponse, mgr, pendClose, worker, closeCount, now, tickC,
                   tickerStopped, held, nextId, blockedOrder, closeReturned>>
    /\ UNCHANGED <<lastServed, acqAfterClose, lateReleased>>
    /\ PoolFrame

\* top of the loop with closed && out == 0 && waiting.Len() == 0:
\* close(closers), then closeWG.Wait()
ManageShutdown ==
    /\ Alive
    /\ mgr = "select"
    /\ pendClose = <<>>
    /\ ShutdownCond
    /\ mgr' = "draining"
    /\ UNCHANGED <<Max, MinIdle, resources, outResources, out, waiting, closed,
                   closeResponse, pendClose, worker, closeCount, now, tickC,
                   tickerStopped, cpc, held, nextId, blockedOrder, closeReturned>>
    /\ UNCHANGED <<lastServed, acqAfterClose, lateReleased>>
    /\ PoolFrame

\* closeWG.Wait() returned: close the internal channels, closeResponse <- nil
\* (Close returns nil), return
ManageReturn ==
    /\ Alive
    /\ mgr = "draining"
    /\ \A w \in Workers : worker[w] = NoRes
    /\ mgr' = "returned"
    /\ cpc' = [cpc EXCEPT ![closeResponse] = "idle"]
    /\ closeReturned' = TRUE
    /\ UNCHANGED <<Max, MinIdle, resources, outResources, out, waiting, closed,
                   closeResponse, pendClose, worker, closeCount, now, tickC,
                   tickerStopped, held, nextId, blockedOrder>>
    /\ UNCHANGED <<lastServed, acqAfterClose, lateReleased>>
    /\ PoolFrame

(***************************************************************************)
(* The close workers: for c := range closers { c.Close() }                 *)
(***************************************************************************)
WorkerRecv(w) ==
    /\ Alive
    /\ worker[w] = NoRes
    /\ pendClose # <<>>
    /\ worker' = [worker EXCEPT ![w] = Head(pendClose)]
    /\ pendClose' = Tail(pendClose)
    /\ UNCHANGED <<Max, MinIdle, resources, outResources, out, waiting, closed,
                   closeResponse, mgr, closeCount, now, tickC, tickerStopped, cpc,
                   held, nextId, blockedOrder, closeReturned>>
    /\ UNCHANGED <<lastServed, acqAfterClose, lateReleased>>
    /\ PoolFrame

WorkerClose(w) ==
    /\ Alive
    /\ worker[w] # NoRes
    /\ closeCount' = [closeCount EXCEPT ![worker[w]] = @ + 1]
    /\ worker' = [worker EXCEPT ![w] = NoRes]
    /\ UNCHANGED <<Max, MinIdle, resources, outResources, out, waiting, closed,
                   closeResponse, mgr, pendClose, now, tickC, tickerStopped, cpc,
                   held, nextId, blockedOrder, closeReturned>>
    /\ UNCHANGED <<lastServed, acqAfterClose, lateReleased>>
    /\ PoolFrame

(***************************************************************************)
(* The clock and the idle ticker (klock.Ticker(p.IdleTimeout)).  A tick    *)
(* is buffered in the ticker's channel; Stop prevents further ticks and    *)
(* leaves a buffered one in the channel.                                   *)
(***************************************************************************)
AdvanceClock ==
    /\ Alive
    /\ now < MaxTime
    /\ now' = now + 1
    /\ tickC' = IF ~tickerStopped /\ (now + 1) % IdleTimeout = 0 /\ tickC = NoTick
                  THEN now + 1 ELSE tickC
    /\ UNCHANGED <<Max, MinIdle, resources, outResources, out, waiting, closed,
                   closeResponse, mgr, pendClose, worker, closeCount,
                   tickerStopped, cpc, held, nextId, blockedOrder, closeReturned>>
    /\ UNCHANGED <<lastServed, acqAfterClose, lateReleased>>
    /\ PoolFrame

NextPool ==
    \/ \E c \in Callers : ManageAcquire(c)
    \/ \E c \in Callers : AcquireOnClosed(c)
    \/ \E c \in Callers : ManageNew(c)
    \/ \E c \in Callers : ManageRelease(c)
    \/ \E c \in Callers : ManageDiscard(c)
    \/ \E c \in Callers : ManageDiscardSentinel(c)
    \/ \E c \in Callers : ManageClose(c)
    \/ \E c \in Callers : CloseOnClosed(c)
    \/ ManageDiscardSlot
    \/ ManageIdleTick
    \/ ManageShutdown
    \/ ManageReturn
    \/ \E w \in Workers : WorkerRecv(w)
    \/ \E w \in Workers : WorkerClose(w)
    \/ AdvanceClock

\* the pool alone
InitOnlyPool == InitPool /\ SessionParked /\ RestartParked /\ RewriteParked

SpecPool == InitOnlyPool /\ [][NextPool]_vars

\* Every holder gives its resource back with Release or Discard, every call
\* of New returns, with a resource or an error, and manage, which chooses
\* among the ready cases of its select at random, comes to receive them;
\* manage and the close workers take the steps they can take.  Nobody need
\* call Acquire or Close, and the clock need not advance.
PoolFairness ==
    /\ \A c \in Callers : SF_vars(ManageRelease(c) \/ ManageDiscard(c))
    /\ \A c \in Callers : SF_vars(ManageNew(c) \/ ManageDiscardSentinel(c))
    /\ WF_vars(ManageDiscardSlot)
    /\ WF_vars(ManageShutdown)
    /\ WF_vars(ManageReturn)
    /\ \A w \in Workers : WF_vars(WorkerRecv(w))
    /\ \A w \in Workers : WF_vars(WorkerClose(w))

SpecPoolLive == InitOnlyPool /\ [][NextPool]_vars /\ PoolFairness

(***************************************************************************)
(* Properties of the resource pool.                                        *)
(***************************************************************************)
Created == 1..(nextId - 1)
IdleSet == {resources[i].resource : i \in 1..Len(resources)}

\* C1: the number of idle resources plus the number of checked-out resources
\* (slots given out for a New still in progress included) never exceeds Max.
C1_IdlePlusOutWithinMax == Len(resources) + out <= Max

\* an idle and a checked-out resource fill the pool after another was closed
C1_Witness ==
    /\ Len(resources) >= 1
    /\ out >= 1
    /\ Len(resources) + out = Max
    /\ \E r \in ResIds : closeCount[r] >= 1

\* C2: every resource New created has its Close invoked at most once, and
\* exactly once when the pool's Close has returned.
C2_ClosedExactlyOnce ==
    \A r \in Created :
        /\ closeCount[r] <= 1
        /\ closeReturned => closeCount[r] = 1

\* C6: every Acquire made after Close was called fails with errPoolClosed.
C6_AcquireAfterCloseIsPoolClosed == acqAfterClose \subseteq {"errPoolClosed"}

\* C7: when Close has returned no resource is checked out, no Acquire waits,
\* no close is in progress and every resource created has been closed; and a
\* resource released after Close with nobody waiting is never idle again.
C7_CloseReturnsAfterAllClosed ==
    /\ closeReturned =>
          /\ out = 0
          /\ waiting = <<>>
          /\ \A c \in Callers : cpc[c] \notin {"waiting", "new", "holding"}
          /\ pendClose = <<>>
          /\ \A w \in Workers : worker[w] = NoRes
          /\ \A r \in Created : closeCount[r] >= 1
    /\ lateReleased \cap IdleSet = {}

\* Close returned after a resource was released to the closed pool
C7_Witness == closeReturned /\ lateReleased # {}

\* C8: a blocked Acquire is resumed only when it is the one that has waited
\* longest, and no Acquire is served directly while another is blocked.
C8_WaitersServedFifo ==
    [][\A c \in Callers :
          /\ (cpc[c] = "waiting" /\ cpc'[c] # "waiting") => c = Head(blockedOrder)
          /\ (cpc[c] = "idle" /\ cpc'[c] \in {"holding", "new"}) => blockedOrder = <<>>
      ]_vars

\* the longest waiting Acquire was resumed and holds a resource while another
\* Acquire is still blocked
C8_Witness ==
    /\ lastServed # NoCaller
    /\ cpc[lastServed] = "holding"
    /\ Len(waiting) >= 1

\* C22 as stated: with Max = 1, an Acquire that is blocked when the pool is
\* closed returns errPoolClosed: it leaves Acquire holding neither a resource
\* nor a slot for a new one.
C22_BlockedAcquireGetsPoolClosed ==
    [][\A c \in Callers :
          (Max = 1 /\ closed /\ cpc[c] = "waiting" /\ cpc'[c] # "waiting")
             => cpc'[c] = "idle"
      ]_vars

\* C22 amended: with Max = 1, an Acquire that is blocked when the pool is
\* closed stays blocked until the holder gives its resource back; it is then
\* handed the released resource, or the slot of a discarded one, and leaves
\* the waiting list; it never returns errPoolClosed, and Close does not return
\* while it is blocked.
C22_BlockedAcquireServedAfterClose ==
    [][\A c \in Callers :
          (Max = 1 /\ closed /\ cpc[c] = "waiting") =>
             /\ cpc'[c] \in {"waiting", "holding", "new"}
             /\ cpc'[c] = "holding" =>
                  \E d \in Callers :
                     /\ cpc[d] = "holding" /\ cpc'[d] = "idle"
                     /\ held'[c] = held[d] /\ held'[c] # NoRes
             /\ cpc'[c] # "waiting" => \A i \in 1..Len(waiting') : waiting'[i] # c
             /\ ~closeReturned'
      ]_vars

\* Close was called while one caller holds the only resource and another is
\* blocked in Acquire; the blocked Acquire has not returned
C22_Witness ==
    /\ Max = 1
    /\ closed
    /\ closeResponse # NoCaller
    /\ cpc[closeResponse] = "closing"
    /\ Len(waiting) = 1
    /\ \E d \in Callers : cpc[d] = "holding"

\* the resources handed to the close workers: being sent on the closers
\* channel, being closed by a worker, or closed
Closing ==
    {pendClose[i] : i \in 1..Len(pendClose)}
       \cup {worker[w] : w \in Workers} \cup {r \in ResIds : closeCount[r] >= 1}

\* C23: every resource created is in exactly one of idle, checked out and
\* closing or closed; a resource handed to a close worker is no longer in the
\* idle list, is never handed to an Acquire and is never closed again.
C23_ExactlyOneState ==
    \A r \in Created :
        /\ r \in IdleSet \/ r \in outResources \/ r \in Closing
        /\ ~(r \in IdleSet /\ r \in outResources)
        /\ ~(r \in IdleSet /\ r \in Closing)
        /\ ~(r \in outResources /\ r \in Closing)
        /\ closeCount[r] <= 1

\* C24: while an Acquire is blocked no resource is idle and the checked-out
\* count equals Max.
C24_NoWaiterWhileIdle ==
    Len(waiting) > 0 => (resources = <<>> /\ out = Max)

\* with Max = 2 a released resource went straight to the first waiter, and
\* another Acquire is blocked while nothing is idle
C24_Witness ==
    /\ Max = 2
    /\ Len(waiting) >= 1
    /\ lastServed # NoCaller
    /\ cpc[lastServed] = "holding"
    /\ held[lastServed] \in outResources
    /\ resources = <<>>
    /\ out = Max

\* the slots in use: callers holding a resource or making one, and the slot
\* of a discarded resource until the discard case has disposed of it
SlotsInUse ==
    Cardinality({c \in Callers : cpc[c] \in {"holding", "new"}})
       + (IF mgr = "discard2" THEN 1 ELSE 0)

\* C25: when New fails in an Acquire that was given a slot, the Acquire
\* returns and the slot is given back: with no Acquire waiting the
\* checked-out count goes down by one, otherwise it stays and the first waiter
\* is told to make a new resource; the checked-out count always equals the
\* number of slots in use, so failures of New never use up capacity.
C25_FailedNewGivesSlotBack ==
    [][/\ \A c \in Callers :
            (cpc[c] = "new" /\ cpc'[c] = "idle") =>
               IF waiting = <<>>
                 THEN /\ out' = out - 1
                      /\ \A d \in Callers \ {c} : cpc'[d] = cpc[d]
                 ELSE /\ out' = out
                      /\ cpc'[Head(waiting)] = "new"
                      /\ waiting' = Tail(waiting)
       /\ out' = SlotsInUse'
      ]_vars

\* no resource was ever created, and a blocked Acquire was given the slot of
\* an Acquire whose New failed while a third Acquire is still blocked
C25_Witness ==
    /\ nextId = 1
    /\ lastServed # NoCaller
    /\ cpc[lastServed] = "new"
    /\ Len(waiting) = 1
    /\ out = Max

\* C26: an idle tick takes entries off the least recently released end of the
\* idle list only, each idle for at least IdleTimeout at the tick, hands
\* exactly those to the close workers, keeps the MinIdle most recently
\* released entries, and changes neither the checked-out count nor the
\* waiting list; an Acquire served from the idle list gets the most recently
\* released entry.
C26_IdleTickEvictsOldBeyondMinIdle ==
    [][/\ (tickC # NoTick /\ tickC' = NoTick) =>
            LET n == Len(resources) - Len(resources') IN
            /\ n >= 0
            /\ resources' = SubSeq(resources, n + 1, Len(resources))
            /\ \A i \in 1..n : tickC - resources[i].use >= IdleTimeout
            /\ n > 0 => pendClose' = [i \in 1..n |-> resources[i].resource]
            /\ n = 0 => pendClose' = pendClose
            /\ Len(resources) >= MinIdle => Len(resources') >= MinIdle
            /\ Len(resources) < MinIdle => n = 0
            /\ out' = out
            /\ waiting' = waiting
       /\ \A c \in Callers :
            (cpc[c] = "idle" /\ cpc'[c] = "holding") =>
               /\ held'[c] = resources[Len(resources)].resource
               /\ \A i \in 1..Len(resources) :
                     resources[i].use <= resources[Len(resources)].use
               /\ resources' = SubSeq(resources, 1, Len(resources) - 1)
      ]_vars

\* an idle tick has just evicted the older of two idle resources and kept the
\* newer one, which has been idle for IdleTimeout as well, because MinIdle = 1
C26_Witness ==
    /\ ~closed
    /\ mgr = "select"
    /\ pendClose # <<>>
    /\ MinIdle = 1
    /\ Len(resources) = 1
    /\ now - resources[1].use >= IdleTimeout

\* C39: every call of Acquire returns, with a resource, New's error or
\* errPoolClosed, and every call of Close returns: a caller that is on the
\* waiting list, in New or in Close, or that made its call after manage had
\* returned, comes to be back from the call.
C39_EveryCallReturns ==
    \A c \in Callers :
       /\ (cpc[c] \in {"waiting", "new", "panicAcquire"})
             ~> (cpc[c] \in {"holding", "idle"})
       /\ (cpc[c] \in {"closing", "panicClose"}) ~> (cpc[c] = "idle")

\* the calls that manage receives: an Acquire that is blocked, on the waiting
\* list or in New, returns: its caller comes to hold a resource or to have
\* New's error; and a Close that manage has accepted returns.
C39_BlockedCallsReturn ==
    \A c \in Callers :
       /\ (cpc[c] \in {"waiting", "new"}) ~> (cpc[c] \in {"holding", "idle"})
       /\ (cpc[c] = "closing") ~> (cpc[c] = "idle" /\ closeReturned)

\* Close returned after it had waited for a holder to release, every New that
\* can succeed having returned a resource
C39_Witness ==
    /\ closeReturned
    /\ lateReleased # {}
    /\ nextId > MaxRes
    /\ \A c \in Callers : cpc[c] = "idle"


(***************************************************************************)
(* The wire protocol.  A message is its header fields and, for an OpQuery, *)
(* the collection name, the keys of the query document and the number of   *)
(* bytes that follow the document.                                         *)
(***************************************************************************)
headerLen == 16

IsMutationInsertUpdate(c) == c = "OpInsert" \/ c = "OpUpdate"

\* OpCode.IsMutation
IsMutation(c) == c = "OpInsert" \/ c = "OpUpdate" \/ c = "OpDelete"

HasResponseQueryOnly(c) == c = "OpQuery"

\* OpCode.HasResponse
HasResponse(c) == c = "OpQuery" \/ c = "OpGetMore"

proxyAllQueries == FALSE

\* the spellings of the key names that occur
KeySpellings ==
    {"getLastError", "getlasterror", "GetLastError", "GETLASTERROR",
     "isMaster", "ismaster", "IsMaster",
     "replSetGetStatus", "replsetgetstatus", "ReplSetGetStatus",
     "forShell", "forshell", "ForShell",
     "find"}

\* strings.ToLower on the key names that occur
ToLower(k) ==
    CASE k \in {"getLastError", "getlasterror", "GetLastError", "GETLASTERROR"}
           -> "getlasterror"
      [] k \in {"isMaster", "ismaster", "IsMaster"} -> "ismaster"
      [] k \in {"replSetGetStatus", "replsetgetstatus", "ReplSetGetStatus"}
           -> "replsetgetstatus"
      [] k \in {"forShell", "forshell", "ForShell"} -> "forshell"
      [] OTHER -> k

\* (variant used to test C36: keys are compared byte for byte)
EqualExact(a, b) == a = b

\* strings.EqualFold
EqualFold(a, b) == ToLower(a) = ToLower(b)

hasKey(d, k) == \E v \in d : EqualFold(v, k)

\* bytes.HasSuffix(fullCollectionName, cmdCollectionSuffix)
HasCmdSuffix(coll) == coll \in {"test.$cmd", "admin.$cmd"}

\* len(fullCollectionName), the terminating zero included
CStringLen(coll) == IF coll = "admin.$cmd" THEN 11 ELSE 10

\* len(queryDoc): every element is taken to be ten bytes long
QueryDocLen(d) == 5 + 10 * Cardinality(d)

\* the queries a client sends: collection, keys of the document, bytes after it
Queries ==
    { [coll |-> "test.$cmd",  doc |-> {"getLastError"},         tail |-> 0],
      [coll |-> "test.$cmd",  doc |-> {"getlasterror"},         tail |-> 7],
      [coll |-> "test.$cmd",  doc |-> {"isMaster"},             tail |-> 0],
      [coll |-> "admin.$cmd", doc |-> {"isMaster", "forShell"}, tail |-> 0],
      [coll |-> "admin.$cmd", doc |-> {"replSetGetStatus"},     tail |-> 0],
      [coll |-> "test.coll",  doc |-> {"find"},                 tail |-> 7] }

NoQuery == [coll |-> "", doc |-> {}, tail |-> 0]

QueryLength(q) == headerLen + 4 + CStringLen(q.coll) + 8 + QueryDocLen(q.doc) + q.tail

\* the messages a client sends as its n-th message
ClientMessages(n) ==
    { [OpCode |-> "OpQuery", RequestID |-> n, MessageLength |-> QueryLength(q), q |-> q]
        : q \in Queries }
    \cup
    { [OpCode |-> c, RequestID |-> n, MessageLength |-> headerLen + 30, q |-> NoQuery]
        : c \in {"OpInsert", "OpUpdate", "OpDelete", "OpGetMore", "OpKillCursors"} }

\* the bodies of the replies a server sends, and their lengths
Payloads == {"ok", "err"}
RestLen(rest) == IF rest = "ok" THEN 40 ELSE 60

\* the reply of the server to the message h
ServerReply(h, rest) ==
    [header |-> [MessageLength |-> headerLen + RestLen(rest), RequestID |-> 0,
                 ResponseTo |-> h.RequestID, OpCode |-> "OpReply"],
     rest |-> rest]

NoHeader == [MessageLength |-> 0, RequestID |-> 0, ResponseTo |-> 0, OpCode |-> "nil"]
NoReply == [header |-> NoHeader, rest |-> ""]

(***************************************************************************)
(* LastError.                                                              *)
(***************************************************************************)
EmptyLastError == [header |-> NoHeader, rest |-> ""]

Exists(l) == l.header # NoHeader

Reset(l) == EmptyLastError

(***************************************************************************)
(* The outcome of proxying one message: the error returned, the cache,     *)
(* the bytes written to and read from the server, the bytes of the body    *)
(* read from the client, and the reply written to the client.  A fault     *)
(* names the read or write that fails.                                     *)
(***************************************************************************)
Failed(e, l) ==
    [err |-> e, lastError |-> l, srvWritten |-> 0, srvRead |-> 0,
     cliRead |-> 0, reply |-> NoReply]

Done(l, w, r, c, reply) ==
    [err |-> "nil", lastError |-> l, srvWritten |-> w, srvRead |-> r,
     cliRead |-> c, reply |-> reply]

\* sum of len(b) over parts in ProxyQuery.Proxy
PartsLen(h) ==
    headerLen + 4 + CStringLen(h.q.coll)
      + (IF proxyAllQueries \/ HasCmdSuffix(h.q.coll) THEN 8 + QueryDocLen(h.q.doc) ELSE 0)

PendingWholeMessage(h) == h.MessageLength

\* pending := int64(h.MessageLength) - int64(written) on a cache hit
Pending(h) == h.MessageLength - PartsLen(h)

GetLastErrorRewriterAlwaysForward(h, l, rest, fault) ==
    IF fault \in {"serverWrite", "copyBody", "readHeader"} THEN Failed("err", l)
    ELSE IF fault = "copyRest"
      THEN Failed("err", [header |-> ServerReply(h, rest).header, rest |-> "partial"])
    ELSE IF fault = "clientWrite" THEN Failed("err", ServerReply(h, rest))
    ELSE Done(ServerReply(h, rest), h.MessageLength,
              ServerReply(h, rest).header.MessageLength,
              h.MessageLength - headerLen,
              ServerReply(h, rest))

\* (variant used to test C35: the error of the copy into lastError.rest is
\* dropped and the reply is written from what was copied)
GetLastErrorRewriterKeepingPartial(h, l, rest, fault) ==
    IF ~Exists(l) /\ fault = "copyRest"
      THEN LET part == [header |-> ServerReply(h, rest).header, rest |-> "partial"]
           IN Done(part, h.MessageLength, part.header.MessageLength,
                   h.MessageLength - headerLen, part)
    ELSE IF fault \in {"serverWrite", "copyBody", "readHeader", "discardBody"}
      THEN Failed("err", l)
    ELSE LET kept == IF Exists(l) THEN [l EXCEPT !.header.ResponseTo = h.RequestID]
                     ELSE ServerReply(h, rest)
         IN IF fault = "clientWrite" THEN Failed("err", kept)
            ELSE Done(kept, 0, 0, h.MessageLength - headerLen, kept)

\* GetLastErrorRewriter.Rewrite
GetLastErrorRewriter(h, l, rest, fault) ==
    IF ~Exists(l)
    THEN
      IF fault \in {"serverWrite", "copyBody", "readHeader"} THEN Failed("err", l)
      ELSE IF fault = "copyRest"
        THEN Failed("err", [header |-> ServerReply(h, rest).header, rest |-> "partial"])
      ELSE IF fault = "clientWrite" THEN Failed("err", ServerReply(h, rest))
      ELSE Done(ServerReply(h, rest), h.MessageLength,
                ServerReply(h, rest).header.MessageLength,
                h.MessageLength - headerLen,
                ServerReply(h, rest))
    ELSE
      IF fault = "discardBody" THEN Failed("err", l)
      ELSE LET cached == [l EXCEPT !.header.ResponseTo = h.RequestID]
           IN IF fault = "clientWrite" THEN Failed("err", cached)
              ELSE Done(cached, 0, 0,
                        (PartsLen(h) - headerLen) + Pending(h),
                        cached)

\* the rewriter ProxyQuery.Proxy selects
Rewriter(q) ==
    IF ~(proxyAllQueries \/ HasCmdSuffix(q.coll)) THEN "nil"
    ELSE IF q.coll = "admin.$cmd" /\ hasKey(q.doc, "replSetGetStatus")
      THEN "ReplSetGetStatusResponseRewriter"
    ELSE IF hasKey(q.doc, "isMaster") THEN "IsMasterResponseRewriter"
    ELSE "nil"

\* ProxyQuery.Proxy
ProxyQuery(h, l, rest, fault) ==
    IF fault \in {"clientRead", "unmarshal"} THEN Failed("err", l)
    ELSE IF (proxyAllQueries \/ HasCmdSuffix(h.q.coll)) /\ hasKey(h.q.doc, "getLastError")
      THEN GetLastErrorRewriter(h, l, rest, fault)
    ELSE
      LET resetLastError ==
              IF Rewriter(h.q) # "nil" THEN hasKey(h.q.doc, "forShell") ELSE TRUE
          l1 == IF resetLastError /\ Exists(l) THEN Reset(l) ELSE l
      IN IF fault \in {"serverWrite", "copyBody"} THEN Failed("err", l1)
         ELSE IF Rewriter(h.q) # "nil" /\ fault = "rewriter" THEN Failed("err", l1)
         ELSE IF Rewriter(h.q) # "nil" /\ fault = "errRSChanged"
           THEN Failed("errRSChanged", l1)
         ELSE IF Rewriter(h.q) = "nil" /\ fault = "copyMessage" THEN Failed("err", l1)
         ELSE Done(l1, h.MessageLength,
                   ServerReply(h, rest).header.MessageLength,
                   h.MessageLength - headerLen,
                   IF Rewriter(h.q) # "nil"
                     THEN [ServerReply(h, rest) EXCEPT !.rest = "rewritten"]
                     ELSE ServerReply(h, rest))

\* Proxy.proxyMessage
proxyMessage(h, l, rest, fault) ==
    IF h.OpCode = "OpQuery" THEN ProxyQuery(h, l, rest, fault)
    ELSE
      LET l1 == IF Exists(l) THEN Reset(l) ELSE l
      IN IF fault \in {"serverWrite", "copyBody"} THEN Failed("err", l1)
         ELSE IF HasResponse(h.OpCode) /\ fault = "copyMessage" THEN Failed("err", l1)
         ELSE Done(l1, h.MessageLength,
                   IF HasResponse(h.OpCode)
                     THEN ServerReply(h, rest).header.MessageLength ELSE 0,
                   h.MessageLength - headerLen,
                   IF HasResponse(h.OpCode) THEN ServerReply(h, rest) ELSE NoReply)

\* the reads and writes that can fail while h is proxied
Faults(h, l) ==
    IF h.OpCode # "OpQuery"
      THEN {"serverWrite", "copyBody"}
             \cup (IF HasResponse(h.OpCode) THEN {"copyMessage"} ELSE {})
    ELSE IF (proxyAllQueries \/ HasCmdSuffix(h.q.coll)) /\ hasKey(h.q.doc, "getLastError")
      THEN {"clientRead", "unmarshal", "clientWrite"}
             \cup (IF Exists(l) THEN {"discardBody"}
                   ELSE {"serverWrite", "copyBody", "readHeader", "copyRest"})
    ELSE {"clientRead", "unmarshal", "serverWrite", "copyBody"}
           \cup (IF Rewriter(h.q) # "nil" THEN {"rewriter", "errRSChanged"}
                 ELSE {"copyMessage"})

(***************************************************************************)
(* Proxy.clientReadHeader.  The read ends with a header, with io.EOF, on   *)
(* its deadline or with another error; viaClosed says that the select took *)
(* the <-p.closed case.                                                    *)
(***************************************************************************)
clientReadHeaderIgnoringClosed(outcome, viaClosed) ==
    IF outcome = "header" THEN "nil"
    ELSE IF outcome = "EOF" THEN "errNormalClose"
    ELSE IF outcome = "timeout" THEN "errClientReadTimeout"
    ELSE "err"

clientReadHeader(outcome, viaClosed) ==
    IF outcome = "header" THEN "nil"
    ELSE IF outcome = "EOF" THEN "errNormalClose"
    ELSE IF outcome = "timeout"
      THEN (IF viaClosed THEN "errNormalClose" ELSE "errClientReadTimeout")
    ELSE "err"

ReadOutcomes == {"header", "EOF", "timeout", "err"}

\* (variant used to test C28: a failed read after a mutation always ends the
\* session)
GleBreaksNever(err) == FALSE

\* after gleClientReadHeader failed: err == errClientReadTimeout breaks out of
\* the inner loop, any other error returns
GleBreaks(err) == err = "errClientReadTimeout"

\* (variant used to test C29: every error is taken for errRSChanged)
IsRSChangedAlways(err) == TRUE

\* err == errRSChanged
IsRSChanged(err) == err = "errRSChanged"

\* (variant used to test C27: the connection is released after an error)
proxyMessageFailedReleasing(err) ==
    <<"Release">> \o (IF IsRSChanged(err) THEN <<"Restart">> ELSE <<>>)

\* what clientServeLoop calls, in order, when proxyMessage returned err,
\* before it returns
proxyMessageFailed(err) ==
    <<"Discard">> \o (IF IsRSChanged(err) THEN <<"Restart">> ELSE <<>>)

\* (variant used to test C37: the outer loop goes round without the Release)
AfterInnerLoopKeeping == <<>>

\* what clientServeLoop calls once the inner loop was left by break
AfterInnerLoop == <<"Release">>

\* the calls of s that give a resource back to the pool
PoolCallsIn(s) == SelectSeq(s, LAMBDA c : c \in {"Release", "Discard"})

Conns == 1..NumConns
NoConn == 0
NoMessage == [OpCode |-> "nil", RequestID |-> 0, MessageLength |-> 0, q |-> NoQuery]
NoRead == [wait |-> "none", outcome |-> "none", viaClosed |-> FALSE, err |-> "none",
           held |-> NoConn, poolCall |-> "none"]
NoFail == [fault |-> "none", err |-> "nil", conn |-> NoConn, calls |-> <<>>]
NoLast == [h |-> NoMessage, conn |-> NoConn, before |-> EmptyLastError,
           after |-> EmptyLastError,
           srvWritten |-> 0, srvRead |-> 0, cliRead |-> 0, reply |-> NoReply]

\* the kind of a message, for the history
Kind(h) ==
    IF h.OpCode = "nil" THEN "none"
    ELSE IF h.OpCode \in {"OpInsert", "OpUpdate", "OpDelete"} THEN "mutation"
    ELSE IF h.OpCode = "OpQuery" /\ h.q.coll \in {"test.$cmd", "admin.$cmd"}
            /\ h.q.doc \cap {"getLastError", "getlasterror"} # {} THEN "getLastError"
    ELSE "other"

InitSession ==
    /\ proxyClosed = FALSE
    /\ serverPool = "open"
    /\ spc = "idleRead"
    /\ hdr = NoMessage
    /\ serverConn = NoConn
    /\ lastError = EmptyLastError
    /\ sent = 0
    /\ last = NoLast
    /\ prevKind = "none"
    /\ gleTimedOut = FALSE
    /\ poolOp = FALSE
    /\ lastRead = NoRead
    /\ lastFail = NoFail
    /\ poolCalls = <<>>

(***************************************************************************)
(* Proxy.clientServeLoop.  spc is                                          *)
(*   idleRead   in idleClientReadHeader                                    *)
(*   acquire    in getServerConn                                           *)
(*   proxy      about to call proxyMessage(h, c, serverConn, &lastError)   *)
(*   gleRead    in gleClientReadHeader, holding serverConn                 *)
(*   done       returned                                                   *)
(*   panicked   panicked in Pool.Acquire                                   *)
(***************************************************************************)
\* idleClientReadHeader returns
IdleReadHeader ==
    /\ spc = "idleRead"
    /\ \E outcome \in ReadOutcomes, viaClosed \in {FALSE, proxyClosed} :
         /\ outcome = "header" => sent < MaxMsgs
         /\ lastRead' = [wait |-> "idle", outcome |-> outcome, viaClosed |-> viaClosed,
                         err |-> clientReadHeader(outcome, viaClosed),
                         held |-> serverConn, poolCall |-> "none"]
         /\ IF clientReadHeader(outcome, viaClosed) = "nil"
              THEN \E h \in ClientMessages(sent + 1) :
                     /\ hdr' = h
                     /\ sent' = sent + 1
                     /\ spc' = "acquire"
              ELSE /\ spc' = "done"
                   /\ UNCHANGED <<hdr, sent>>
    /\ UNCHANGED <<proxyClosed, serverPool, serverConn, lastError, last, prevKind,
                   gleTimedOut, poolOp, lastFail, poolCalls>>
    /\ SessionFrame

\* getServerConn returns
GetServerConn ==
    /\ spc = "acquire"
    /\ \/ /\ serverPool = "open"
          /\ \E c \in Conns : serverConn' = c
          /\ spc' = "proxy"
          /\ poolOp' = TRUE
          /\ poolCalls' = <<"Acquire">>
       \/ /\ serverPool = "open"          \* Pool.New failed
          /\ spc' = "done"
          /\ poolOp' = TRUE
          /\ UNCHANGED <<serverConn, poolCalls>>
       \/ /\ serverPool = "closing"       \* errPoolClosed
          /\ spc' = "done"
          /\ poolOp' = TRUE
          /\ UNCHANGED <<serverConn, poolCalls>>
       \/ /\ serverPool = "closed"        \* send on the closed p.acquire
          /\ spc' = "panicked"
          /\ poolOp' = TRUE
          /\ UNCHANGED <<serverConn, poolCalls>>
    /\ UNCHANGED <<proxyClosed, serverPool, hdr, lastError, sent, last, prevKind,
                   gleTimedOut, lastRead, lastFail>>
    /\ SessionFrame

\* one iteration of the inner loop up to gleClientReadHeader, or to the
\* Release or Discard that ends the inner loop
ProxyMessage ==
    /\ spc = "proxy"
    /\ \E rest \in Payloads, fault \in Faults(hdr, lastError) \cup {"none"} :
         LET res == proxyMessage(hdr, lastError, rest, fault)
         IN /\ lastError' = res.lastError
            /\ IF res.err # "nil"
                 THEN \* Discard(serverConn); go Restart() if errRSChanged; return
                      /\ spc' = "done"
                      /\ serverConn' = NoConn
                      /\ poolOp' = TRUE
                      /\ lastFail' = [fault |-> fault, err |-> res.err,
                                      conn |-> serverConn,
                                      calls |-> proxyMessageFailed(res.err)]
                      /\ poolCalls' = poolCalls \o PoolCallsIn(proxyMessageFailed(res.err))
                      /\ UNCHANGED <<last, prevKind, gleTimedOut>>
                 ELSE /\ lastFail' = lastFail
                      /\ last' = [h |-> hdr, conn |-> serverConn, before |-> lastError,
                                  after |-> res.lastError,
                                  srvWritten |-> res.srvWritten, srvRead |-> res.srvRead,
                                  cliRead |-> res.cliRead, reply |-> res.reply]
                      /\ prevKind' = Kind(last.h)
                      /\ gleTimedOut' = FALSE
                      /\ IF ~IsMutation(hdr.OpCode)
                           THEN \* break; Release(serverConn)
                                /\ spc' = "idleRead"
                                /\ serverConn' = NoConn
                                /\ poolOp' = TRUE
                                /\ poolCalls' = poolCalls \o AfterInnerLoop
                           ELSE /\ spc' = "gleRead"
                                /\ poolOp' = FALSE
                                /\ UNCHANGED <<serverConn, poolCalls>>
    /\ hdr' = NoMessage
    /\ UNCHANGED <<proxyClosed, serverPool, sent, lastRead>>
    /\ SessionFrame

\* gleClientReadHeader returns
GleReadHeader ==
    /\ spc = "gleRead"
    /\ \E outcome \in ReadOutcomes, viaClosed \in {FALSE, proxyClosed} :
         /\ outcome = "header" => sent < MaxMsgs
         /\ LET err == clientReadHeader(outcome, viaClosed)
            IN /\ lastRead' = [wait |-> "gle", outcome |-> outcome,
                               viaClosed |-> viaClosed, err |-> err,
                               held |-> serverConn,
                               poolCall |-> IF err = "nil" THEN "none" ELSE "Release"]
               /\ IF err = "nil"
                     THEN /\ \E h \in ClientMessages(sent + 1) : hdr' = h
                          /\ sent' = sent + 1
                          /\ spc' = "proxy"
                          /\ UNCHANGED <<serverConn, gleTimedOut, poolOp, poolCalls>>
                   ELSE IF GleBreaks(err)
                     THEN \* break; Release(serverConn)
                          /\ spc' = "idleRead"
                          /\ serverConn' = NoConn
                          /\ gleTimedOut' = TRUE
                          /\ poolOp' = TRUE
                          /\ poolCalls' = poolCalls \o AfterInnerLoop
                          /\ UNCHANGED <<hdr, sent>>
                   ELSE   \* Release(serverConn); return
                          /\ spc' = "done"
                          /\ serverConn' = NoConn
                          /\ poolOp' = TRUE
                          /\ poolCalls' = Append(poolCalls, "Release")
                          /\ UNCHANGED <<hdr, sent, gleTimedOut>>
    /\ UNCHANGED <<proxyClosed, serverPool, lastError, last, prevKind, lastFail>>
    /\ SessionFrame

(***************************************************************************)
(* Proxy.stop(hard): close(p.closed), wait for the sessions unless hard,   *)
(* then serverPool.Close(), which returns once no connection is out.       *)
(***************************************************************************)
StopSignal ==
    /\ ~proxyClosed
    /\ proxyClosed' = TRUE
    /\ UNCHANGED <<serverPool, spc, hdr, serverConn, lastError, sent, last, prevKind,
                   gleTimedOut, poolOp, lastRead, lastFail, poolCalls>>
    /\ SessionFrame

StopClosePool ==
    /\ proxyClosed
    /\ serverPool = "open"
    /\ \E hard \in BOOLEAN : hard \/ spc \in {"done", "panicked"}
    /\ serverPool' = "closing"
    /\ UNCHANGED <<proxyClosed, spc, hdr, serverConn, lastError, sent, last, prevKind,
                   gleTimedOut, poolOp, lastRead, lastFail, poolCalls>>
    /\ SessionFrame

StopPoolClosed ==
    /\ serverPool = "closing"
    /\ serverConn = NoConn
    /\ serverPool' = "closed"
    /\ UNCHANGED <<proxyClosed, spc, hdr, serverConn, lastError, sent, last, prevKind,
                   gleTimedOut, poolOp, lastRead, lastFail, poolCalls>>
    /\ SessionFrame

NextSession ==
    \/ IdleReadHeader
    \/ GetServerConn
    \/ ProxyMessage
    \/ GleReadHeader
    \/ StopSignal
    \/ StopClosePool
    \/ StopPoolClosed

\* a session alone
InitOnlySession == InitSession /\ PoolParked /\ RestartParked /\ RewriteParked

SpecSession == InitOnlySession /\ [][NextSession]_vars

(***************************************************************************)
(* Properties of a client session.                                         *)
(***************************************************************************)
\* C3: when the message proxied last was an Insert, Update or Delete and the
\* next message was read before GetLastErrorTimeout ran out, that message is
\* dispatched on the connection the mutation used, and the session called
\* neither Acquire nor Release nor Discard in between.
C3_NextMessageOnMutationConn ==
    (/\ spc = "proxy"
     /\ last.h.OpCode \in {"OpInsert", "OpUpdate", "OpDelete"}
     /\ ~gleTimedOut)
    => (serverConn = last.conn /\ serverConn # NoConn /\ ~poolOp)

\* a getLastError query is about to be dispatched right after a Delete
C3_Witness ==
    /\ spc = "proxy"
    /\ last.h.OpCode = "OpDelete"
    /\ ~gleTimedOut
    /\ Kind(hdr) = "getLastError"
    /\ serverConn = last.conn

\* C4: a getLastError query proxied right after a mutation is written to the
\* server in full, the server's reply is read, stored in the cache and written
\* to the client; a getLastError query proxied right after another
\* getLastError query is answered with the cached reply, ResponseTo set to its
\* RequestID, and nothing is written to or read from the server.
C4_GetLastErrorCached ==
    Kind(last.h) = "getLastError" =>
       /\ prevKind = "mutation" =>
            /\ last.srvWritten = last.h.MessageLength
            /\ last.srvRead = last.reply.header.MessageLength
            /\ last.srvRead > 0
            /\ last.reply.header.ResponseTo = last.h.RequestID
            /\ last.after = last.reply
       /\ prevKind = "getLastError" =>
            /\ last.srvWritten = 0
            /\ last.srvRead = 0
            /\ Exists(last.before)
            /\ last.reply.rest = last.before.rest
            /\ last.reply.header =
                 [last.before.header EXCEPT !.ResponseTo = last.h.RequestID]
            /\ last.after = last.reply

\* a mutation, a getLastError query sent to the server and a second one
\* answered from the cache
C4_Witness ==
    /\ Kind(last.h) = "getLastError"
    /\ prevKind = "getLastError"
    /\ last.h.RequestID = 3
    /\ last.reply.header.ResponseTo = 3
    /\ last.srvWritten = 0

\* C13: a getLastError query proxied while the cache holds a reply takes the
\* whole message off the client connection (the bytes already read as parts
\* and exactly the pending rest), writes nothing to the server and reads
\* nothing from it, and writes to the client the cached header with ResponseTo
\* set to the RequestID of the query, followed by the cached payload; the cache
\* then still holds that payload.
C13_CacheHitServedFromCache ==
    (Kind(last.h) = "getLastError" /\ Exists(last.before)) =>
       /\ last.cliRead = last.h.MessageLength - headerLen
       /\ last.srvWritten = 0
       /\ last.srvRead = 0
       /\ last.reply.header =
            [last.before.header EXCEPT !.ResponseTo = last.h.RequestID]
       /\ last.reply.rest = last.before.rest
       /\ Exists(last.after)
       /\ last.after.rest = last.before.rest

\* a getLastError query with bytes after its document was answered from a
\* cache holding the payload of an earlier reply
C13_Witness ==
    /\ Kind(last.h) = "getLastError"
    /\ Exists(last.before)
    /\ last.h.q.tail = 7
    /\ last.before.rest = "err"
    /\ last.reply.rest = "err"
    /\ last.reply.header.ResponseTo = last.h.RequestID

\* C14: a request that is not a getLastError query leaves the cache empty,
\* and the getLastError query proxied after it is written to the server in
\* full.
C14_OtherRequestsClearCache ==
    /\ (last.h.OpCode # "nil" /\ Kind(last.h) # "getLastError")
         => ~Exists(last.after)
    /\ (Kind(last.h) = "getLastError" /\ prevKind \in {"mutation", "other"})
         => last.srvWritten = last.h.MessageLength

\* C19: a message whose opcode is not OpQuery and that is proxied without an
\* error has its header and its MessageLength - headerLen body bytes written
\* to the server; one reply is read from the server and written to the client
\* when the opcode is OpGetMore and none otherwise; after an Insert, Update or
\* Delete the session keeps the connection and reads the next header.
C19_NonQueryForwarded ==
    [][(spc = "proxy" /\ hdr.OpCode # "OpQuery" /\ spc' \notin {"proxy", "done"}) =>
         /\ last'.h = hdr
         /\ last'.srvWritten = headerLen + (hdr.MessageLength - headerLen)
         /\ last'.cliRead = hdr.MessageLength - headerLen
         /\ IF hdr.OpCode = "OpGetMore"
              THEN /\ last'.reply.header.OpCode = "OpReply"
                   /\ last'.reply.header.ResponseTo = hdr.RequestID
                   /\ last'.srvRead = last'.reply.header.MessageLength
                   /\ last'.srvRead > 0
              ELSE /\ last'.reply = NoReply
                   /\ last'.srvRead = 0
         /\ IF hdr.OpCode \in {"OpInsert", "OpUpdate", "OpDelete"}
              THEN spc' = "gleRead" /\ serverConn' = serverConn
              ELSE spc' = "idleRead" /\ serverConn' = NoConn
      ]_vars

\* an Insert was forwarded, nothing was read from the server, and the session
\* waits for the next header with the connection in hand
C19_Witness ==
    /\ spc = "gleRead"
    /\ last.h.OpCode = "OpInsert"
    /\ last.srvWritten = last.h.MessageLength
    /\ last.srvRead = 0
    /\ last.reply = NoReply
    /\ serverConn # NoConn

\* C20: when clientReadHeader took the <-p.closed case, which sets the read
\* deadline to a time in the past, and the read then ended on its deadline,
\* the error is errNormalClose and neither errClientReadTimeout nor another
\* error, the connection the session held is given back with Release, and
\* the session has returned.
C20_StopWakesBlockedRead ==
    (lastRead.viaClosed /\ lastRead.outcome = "timeout") =>
       /\ lastRead.err = "errNormalClose"
       /\ spc = "done"
       /\ serverConn = NoConn
       /\ lastRead.held # NoConn => lastRead.poolCall = "Release"

\* the proxy was stopped while the session waited for the message after a
\* mutation, holding a connection
C20_Witness ==
    /\ proxyClosed
    /\ lastRead.wait = "gle"
    /\ lastRead.viaClosed
    /\ lastRead.outcome = "timeout"
    /\ lastRead.held # NoConn
    /\ lastRead.poolCall = "Release"
    /\ spc = "done"

\* C27: whenever proxyMessage fails, whichever read, write, unmarshal or
\* rewriter failed, the session first calls Discard on the connection it
\* holds, never Release, and ends; when proxyMessage succeeds nothing is
\* discarded.
C27_FailureDiscardsAndEnds ==
    [][(spc = "proxy" /\ spc' # "proxy") =>
         IF \E rest \in Payloads :
               proxyMessage(hdr, lastError, rest, lastFail'.fault).err # "nil"
            /\ lastFail' # lastFail
           THEN /\ lastFail'.fault \in Faults(hdr, lastError)
                /\ lastFail'.err # "nil"
                /\ lastFail'.conn = serverConn
                /\ serverConn \in Conns
                /\ Head(lastFail'.calls) = "Discard"
                /\ \A i \in 1..Len(lastFail'.calls) : lastFail'.calls[i] # "Release"
                /\ serverConn' = NoConn
                /\ spc' = "done"
           ELSE /\ lastFail' = lastFail
                /\ spc' \in {"idleRead", "gleRead"}
                /\ last'.h = hdr
      ]_vars

\* the session ended after a rewriter failed: its connection was discarded
C27_Witness ==
    /\ spc = "done"
    /\ lastFail.fault = "rewriter"
    /\ lastFail.conn \in Conns
    /\ lastFail.calls = <<"Discard">>
    /\ serverConn = NoConn

\* C28: when the read after a proxied mutation times out, the session
\* releases its connection and is back in the idle read, not ended; when the
\* idle read times out, the session ends.
C28_GleTimeoutReleasesAndContinues ==
    [][/\ (spc = "gleRead" /\ lastRead'.err = "errClientReadTimeout"
            /\ lastRead' # lastRead) =>
              /\ Kind(last.h) = "mutation"
              /\ serverConn \in Conns
              /\ lastRead'.held = serverConn
              /\ lastRead'.poolCall = "Release"
              /\ serverConn' = NoConn
              /\ spc' = "idleRead"
              /\ lastFail' = NoFail
       /\ (spc = "idleRead" /\ lastRead'.err = "errClientReadTimeout"
            /\ lastRead' # lastRead) =>
              /\ spc' = "done"
              /\ lastRead'.poolCall = "none"
              /\ serverConn = NoConn
      ]_vars

\* after the read following a mutation timed out, the session read and got
\* the next message from the client
C28_Witness ==
    /\ gleTimedOut
    /\ spc = "acquire"
    /\ hdr # NoMessage
    /\ Kind(last.h) = "mutation"
    /\ serverConn = NoConn

\* C29: when proxyMessage fails with errRSChanged the session calls Discard
\* and then Restart before it ends; when it fails with any other error it
\* does not call Restart.
C29_RSChangedRestarts ==
    [][(spc = "proxy" /\ spc' = "done") =>
         IF lastFail'.err = "errRSChanged"
           THEN lastFail'.calls = <<"Discard", "Restart">>
           ELSE \A i \in 1..Len(lastFail'.calls) : lastFail'.calls[i] # "Restart"
      ]_vars

\* the session ended on errRSChanged: Discard, then Restart
C29_Witness ==
    /\ spc = "done"
    /\ lastFail.err = "errRSChanged"
    /\ lastFail.fault = "errRSChanged"
    /\ lastFail.calls = <<"Discard", "Restart">>

\* C31: a query other than getLastError that was proxied with a reply in the
\* cache keeps the cache when a rewriter was selected for it and its document
\* has the key forShell, and clears the cache otherwise; an isMaster query
\* without forShell clears it.
C31_ResetUnlessRewrittenForShell ==
    (last.h.OpCode = "OpQuery" /\ Kind(last.h) # "getLastError" /\ Exists(last.before)) =>
       IF Rewriter(last.h.q) # "nil" /\ "forShell" \in last.h.q.doc
         THEN last.after = last.before
         ELSE ~Exists(last.after)

\* C35: whenever the session waits for a request or is about to proxy one,
\* lastError holds a header with its whole payload or nothing; the header with
\* a partly copied payload that a failed copy leaves behind is never there
\* when a later getLastError could be answered from it.
C35_CacheWholeOrEmptyBetweenRequests ==
    spc \in {"idleRead", "acquire", "proxy", "gleRead"} =>
       \/ lastError = EmptyLastError
       \/ Exists(lastError) /\ lastError.rest \in Payloads

\* the copy into lastError.rest failed after the header was stored, and the
\* session returned
C35_Witness ==
    /\ spc = "done"
    /\ lastFail.fault = "copyRest"
    /\ Exists(lastError) /\ lastError.rest = "partial"

\* the documents that differ from d only in the letter case of their keys
Recase(d) ==
    { {f[k] : k \in d} :
        f \in {g \in [d -> KeySpellings] : \A k \in d : ToLower(g[k]) = ToLower(k)} }

\* C36: a query about to be proxied, and every query that differs from it
\* only in the letter case of the keys of its document, select the same
\* rewriter, can fail at the same reads and writes, and have the same outcome
\* on every payload and fault: error, cache, bytes to and from the server,
\* bytes read from the client and reply.
C36_KeyCaseIrrelevant ==
    (spc = "proxy" /\ hdr.OpCode = "OpQuery") =>
       \A d \in Recase(hdr.q.doc) :
          LET g == [hdr EXCEPT !.q.doc = d]
          IN /\ Rewriter(g.q) = Rewriter(hdr.q)
             /\ Faults(g, lastError) = Faults(hdr, lastError)
             /\ \A rest \in Payloads, fault \in Faults(hdr, lastError) \cup {"none"} :
                   proxyMessage(g, lastError, rest, fault)
                     = proxyMessage(hdr, lastError, rest, fault)

\* a getLastError query is about to be answered from the cache, and
\* {GetLastError: 1} is one of its respellings
C36_Witness ==
    /\ spc = "proxy"
    /\ hdr.OpCode = "OpQuery"
    /\ hdr.q.doc = {"getLastError"}
    /\ Exists(lastError)
    /\ {"GetLastError"} \in Recase(hdr.q.doc)

\* C37: the session holds a resource exactly while its calls since the Acquire
\* that gave it are that Acquire alone; when the session waits for a first
\* message, acquires or has ended, the calls are none, or the Acquire followed
\* by exactly one Release or Discard, and nothing is checked out.
C37_OneGiveBackPerAcquire ==
    /\ poolCalls \in {<<>>, <<"Acquire">>, <<"Acquire", "Release">>, <<"Acquire", "Discard">>}
    /\ serverConn # NoConn <=> poolCalls = <<"Acquire">>
    /\ serverConn # NoConn <=> spc \in {"proxy", "gleRead"}
    /\ spc \in {"idleRead", "acquire", "done", "panicked"} =>
          /\ serverConn = NoConn
          /\ poolCalls # <<"Acquire">>

\* the session ended on a failed proxyMessage after it had had a resource
\* released at the end of the inner loop and acquired again
C37_Witness ==
    /\ spc = "done"
    /\ sent >= 2
    /\ last.conn \in Conns
    /\ lastFail.conn \in Conns
    /\ poolCalls = <<"Acquire", "Discard">>
    /\ serverConn = NoConn






(***************************************************************************)
(* ReplicaSet.Restart, ReplicaSet.stop and ReplicaSet.Start.  The replica  *)
(* set has one mongo address; the proxy a Start creates is named after the *)
(* goroutine running it, and InitialProxy is the one of the Start that     *)
(* brought the ReplicaSet up.  A goroutine is                              *)
(*   idle          not yet in Restart                                      *)
(*   do            has evaluated r.restarter, about to call Do on it       *)
(*   stop          in the function given to Do, about to call r.stop       *)
(*   startReset    in Start, before the maps are made                      *)
(*   startState    in Start, before ReplicaSetStateCreator.FromAddrs       *)
(*   startOnce     in Start, before r.restarter = new(sync.Once)           *)
(*   startAdd      in Start, before newListener and r.add                  *)
(*   startProxies  in Start, before the proxies are started                *)
(*   returned      returned from Restart                                   *)
(*   panicked      panicked: start failed for restart                      *)
(***************************************************************************)
Restarters == 1..NumRestarters
OnceIds == 0..NumRestarters
InitialProxy == 0
NoProxy == -1

InBody == {"stop", "startReset", "startState", "startOnce", "startAdd", "startProxies"}

Running == \A g \in Restarters : rpc[g] # "panicked"

\* the sync.Once a new(sync.Once) allocates
NewOnce == CHOOSE i \in OnceIds : onces[i] = "unallocated"
                                   /\ \A j \in OnceIds : j < i => onces[j] # "unallocated"

InitRestart ==
    /\ restarter = 0
    /\ onces = [i \in OnceIds |-> IF i = 0 THEN "fresh" ELSE "unallocated"]
    /\ rpc = [g \in Restarters |-> "idle"]
    /\ myOnce = [g \in Restarters |-> 0]
    /\ realToProxy = InitialProxy
    /\ proxies = {InitialProxy}
    /\ started = {InitialProxy}

\* Restart: the receiver expression r.restarter is evaluated
RestartRead(g) ==
    /\ Running
    /\ rpc[g] = "idle"
    /\ myOnce' = [myOnce EXCEPT ![g] = restarter]
    /\ rpc' = [rpc EXCEPT ![g] = "do"]
    /\ UNCHANGED <<restarter, onces, realToProxy, proxies, started>>
    /\ RestartFrame

\* sync.Once.Do: the first caller runs the function; a later caller waits
\* for it to finish and returns
OnceDo(g) ==
    /\ Running
    /\ rpc[g] = "do"
    /\ \/ /\ onces[myOnce[g]] = "fresh"
          /\ onces' = [onces EXCEPT ![myOnce[g]] = "running"]
          /\ rpc' = [rpc EXCEPT ![g] = "stop"]
       \/ /\ onces[myOnce[g]] = "done"
          /\ rpc' = [rpc EXCEPT ![g] = "returned"]
          /\ UNCHANGED onces
    /\ UNCHANGED <<restarter, myOnce, realToProxy, proxies, started>>
    /\ RestartFrame

\* r.stop(*hardRestart): every proxy in r.proxies is stopped
RestartStop(g) ==
    /\ Running
    /\ rpc[g] = "stop"
    /\ started' = started \ proxies
    /\ rpc' = [rpc EXCEPT ![g] = "startReset"]
    /\ UNCHANGED <<restarter, onces, myOnce, realToProxy, proxies>>
    /\ RestartFrame

\* Start: the maps are made anew
StartReset(g) ==
    /\ Running
    /\ rpc[g] = "startReset"
    /\ realToProxy' = NoProxy
    /\ proxies' = {}
    /\ rpc' = [rpc EXCEPT ![g] = "startState"]
    /\ UNCHANGED <<restarter, onces, myOnce, started>>
    /\ RestartFrame

\* Start: FromAddrs and the check for a healthy address; an error makes
\* Restart panic
StartFromAddrs(g) ==
    /\ Running
    /\ rpc[g] = "startState"
    /\ \E ok \in BOOLEAN :
         rpc' = [rpc EXCEPT ![g] = IF ok THEN "startOnce" ELSE "panicked"]
    /\ UNCHANGED <<restarter, onces, myOnce, realToProxy, proxies, started>>
    /\ RestartFrame

\* Start: r.restarter = new(sync.Once)
StartNewOnce(g) ==
    /\ Running
    /\ rpc[g] = "startOnce"
    /\ restarter' = NewOnce
    /\ onces' = [onces EXCEPT ![NewOnce] = "fresh"]
    /\ rpc' = [rpc EXCEPT ![g] = "startAdd"]
    /\ UNCHANGED <<myOnce, realToProxy, proxies, started>>
    /\ RestartFrame

\* Start: newListener and r.add(p) for the mongo address
StartAdd(g) ==
    /\ Running
    /\ rpc[g] = "startAdd"
    /\ \E listening \in BOOLEAN :
         IF listening /\ realToProxy = NoProxy
           THEN /\ realToProxy' = g
                /\ proxies' = proxies \cup {g}
                /\ rpc' = [rpc EXCEPT ![g] = "startProxies"]
           ELSE \* no free port, or mongo already exists in ReplicaSet
                /\ rpc' = [rpc EXCEPT ![g] = "panicked"]
                /\ UNCHANGED <<realToProxy, proxies>>
    /\ UNCHANGED <<restarter, onces, myOnce, started>>
    /\ RestartFrame

\* Start: every proxy in r.proxies is started; Start returns nil and Do
\* marks the sync.Once done
StartProxies(g) ==
    /\ Running
    /\ rpc[g] = "startProxies"
    /\ started' = started \cup proxies
    /\ onces' = [onces EXCEPT ![myOnce[g]] = "done"]
    /\ rpc' = [rpc EXCEPT ![g] = "returned"]
    /\ UNCHANGED <<restarter, myOnce, realToProxy, proxies>>
    /\ RestartFrame

NextRestart ==
    \/ \E g \in Restarters : RestartRead(g)
    \/ \E g \in Restarters : OnceDo(g)
    \/ \E g \in Restarters : RestartStop(g)
    \/ \E g \in Restarters : StartReset(g)
    \/ \E g \in Restarters : StartFromAddrs(g)
    \/ \E g \in Restarters : StartNewOnce(g)
    \/ \E g \in Restarters : StartAdd(g)
    \/ \E g \in Restarters : StartProxies(g)

\* the restart gate alone
InitOnlyRestart == InitRestart /\ PoolParked /\ SessionParked /\ RewriteParked

SpecRestart == InitOnlyRestart /\ [][NextRestart]_vars

(***************************************************************************)
(* Properties of the restart gate.                                         *)
(***************************************************************************)
\* C5: at most one goroutine is inside the function Restart gives to Do (the
\* stop followed by Start) at any time.
C5_OneRestartAtATime ==
    Cardinality({g \in Restarters : rpc[g] \in InBody}) <= 1

(***************************************************************************)
(* IsMasterResponseRewriter.Rewrite.  The reply of the server is a header  *)
(* and one document, unmarshalled into isMasterResponse: Hosts, Primary,   *)
(* Me, and Extra for every other field (here passives and foo).            *)
(***************************************************************************)
RealAddrs == {"a", "bb", "ccc"}

\* r.realToProxy
ProxyAddr(h) ==
    CASE h = "a" -> "1111"
      [] h = "bb" -> "22"
      [] h = "ccc" -> "3"

\* len(s)
StrLen(s) ==
    CASE s \in {"a", "3"} -> 1
      [] s \in {"bb", "22"} -> 2
      [] s = "ccc" -> 3
      [] s = "1111" -> 4
      [] OTHER -> 0

\* the sequences over S of length at most n
SeqsUpTo(S, n) == UNION {[1..k -> S] : k \in 0..n}

\* (variant used to test C33: an ignored member is reported like one that is
\* not in the replica set)
ProxyIgnoredIsUnknown(mapper, h) ==
    IF mapper[h] = "mapped" THEN [err |-> "nil", addr |-> ProxyAddr(h)]
    ELSE [err |-> "err", addr |-> ""]

\* ReplicaSet.Proxy: the proxy address, a ProxyMapperError for an ignored
\* member, another error for an address that is not in the replica set
Proxy(mapper, h) ==
    IF mapper[h] = "mapped" THEN [err |-> "nil", addr |-> ProxyAddr(h)]
    ELSE IF mapper[h] = "ignored" THEN [err |-> "ProxyMapperError", addr |-> ""]
    ELSE [err |-> "err", addr |-> ""]

\* the length of the BSON encoding of an array of strings
RECURSIVE ArrayLen(_)
ArrayLen(a) ==
    IF a = <<>> THEN 5
    ELSE (1 + 2 + 4 + StrLen(Head(a)) + 1) + ArrayLen(Tail(a))

\* len(bson.Marshal(q)): hosts, primary and me are omitted when empty, and
\* so is passives in Extra when the server did not send it
DocLen(q) ==
    5 + (IF q.Hosts = <<>> THEN 0 ELSE 1 + 6 + ArrayLen(q.Hosts))
      + (IF q.Primary = "" THEN 0 ELSE 1 + 8 + 4 + StrLen(q.Primary) + 1)
      + (IF q.Me = "" THEN 0 ELSE 1 + 3 + 4 + StrLen(q.Me) + 1)
      + (IF q.Extra.passives = <<>> THEN 0 ELSE 1 + 9 + ArrayLen(q.Extra.passives))
      + (1 + 4 + 4 + StrLen(q.Extra.foo) + 1)

prefixLen == 20

\* the replies of the server
IsMasterReplies ==
    { [MessageLength |-> headerLen + prefixLen + DocLen(q), q |-> q] :
        q \in [Hosts : SeqsUpTo(RealAddrs, MaxHosts),
               Primary : RealAddrs \cup {""},
               Me : RealAddrs \cup {""},
               Extra : [passives : SeqsUpTo(RealAddrs, MaxPassives), foo : {"bar"}]] }

NoIsMaster ==
    [MessageLength |-> 0,
     q |-> [Hosts |-> <<>>, Primary |-> "", Me |-> "",
            Extra |-> [passives |-> <<>>, foo |-> ""]]]

\* the loop over q.Hosts
RECURSIVE NewHosts(_, _)
NewHosts(mapper, hosts) ==
    IF hosts = <<>> THEN <<>>
    ELSE IF Proxy(mapper, Head(hosts)).err = "nil"
      THEN <<Proxy(mapper, Head(hosts)).addr>> \o NewHosts(mapper, Tail(hosts))
    ELSE NewHosts(mapper, Tail(hosts))

\* the client writes of ReplyRW.WriteOne that can fail: of the header, of the
\* prefix, of the document
WriteFaults == {"WriteOne", "WriteOnePrefix", "WriteOneDoc"}

\* ReplyRW.WriteOne: the bytes written to the client by the parts before the
\* one whose write fails
WriteOneWritten(fault) ==
    CASE fault = "WriteOne" -> 0
      [] fault = "WriteOnePrefix" -> headerLen
      [] fault = "WriteOneDoc" -> headerLen + prefixLen

WriteOneLengthAddingNew(MessageLength, oldDocLen, newDocLen) ==
    MessageLength + newDocLen

\* ReplyRW.WriteOne: h.MessageLength
WriteOneLength(MessageLength, oldDocLen, newDocLen) ==
    MessageLength - oldDocLen + newDocLen

\* (variant used to test C32: the hosts, primary and me are mapped before the
\* reply is compared with the snapshot)
RewriteMappingFirst(reply, mapper, sameIM, fault) ==
    IF fault = "ReadOne" THEN [err |-> "err", reply |-> NoIsMaster, written |-> 0]
    ELSE IF \E i \in 1..Len(reply.q.Hosts) : Proxy(mapper, reply.q.Hosts[i]).err = "err"
      THEN [err |-> "err", reply |-> NoIsMaster, written |-> 0]
    ELSE IF reply.q.Primary # "" /\ Proxy(mapper, reply.q.Primary).err # "nil"
      THEN [err |-> Proxy(mapper, reply.q.Primary).err, reply |-> NoIsMaster, written |-> 0]
    ELSE IF reply.q.Me # "" /\ Proxy(mapper, reply.q.Me).err # "nil"
      THEN [err |-> Proxy(mapper, reply.q.Me).err, reply |-> NoIsMaster, written |-> 0]
    ELSE IF ~sameIM THEN [err |-> "errRSChanged", reply |-> NoIsMaster, written |-> 0]
    ELSE IF fault \in WriteFaults
      THEN [err |-> "err", reply |-> NoIsMaster, written |-> WriteOneWritten(fault)]
    ELSE
      LET q == [Hosts |-> NewHosts(mapper, reply.q.Hosts),
                Primary |-> IF reply.q.Primary # ""
                              THEN Proxy(mapper, reply.q.Primary).addr ELSE "",
                Me |-> IF reply.q.Me # "" THEN Proxy(mapper, reply.q.Me).addr ELSE "",
                Extra |-> reply.q.Extra]
      IN [err |-> "nil",
          reply |-> [MessageLength |->
                        WriteOneLength(reply.MessageLength, DocLen(reply.q), DocLen(q)),
                     q |-> q],
          written |-> WriteOneLength(reply.MessageLength, DocLen(reply.q), DocLen(q))]

\* IsMasterResponseRewriter.Rewrite
Rewrite(reply, mapper, sameIM, fault) ==
    IF fault = "ReadOne" THEN [err |-> "err", reply |-> NoIsMaster, written |-> 0]
    ELSE IF ~sameIM THEN [err |-> "errRSChanged", reply |-> NoIsMaster, written |-> 0]
    ELSE IF \E i \in 1..Len(reply.q.Hosts) : Proxy(mapper, reply.q.Hosts[i]).err = "err"
      THEN [err |-> "err", reply |-> NoIsMaster, written |-> 0]
    ELSE IF reply.q.Primary # "" /\ Proxy(mapper, reply.q.Primary).err # "nil"
      THEN [err |-> Proxy(mapper, reply.q.Primary).err, reply |-> NoIsMaster, written |-> 0]
    ELSE IF reply.q.Me # "" /\ Proxy(mapper, reply.q.Me).err # "nil"
      THEN [err |-> Proxy(mapper, reply.q.Me).err, reply |-> NoIsMaster, written |-> 0]
    ELSE IF fault \in WriteFaults
      THEN [err |-> "err", reply |-> NoIsMaster, written |-> WriteOneWritten(fault)]
    ELSE
      LET q == [Hosts |-> NewHosts(mapper, reply.q.Hosts),
                Primary |-> IF reply.q.Primary # ""
                              THEN Proxy(mapper, reply.q.Primary).addr ELSE "",
                Me |-> IF reply.q.Me # "" THEN Proxy(mapper, reply.q.Me).addr ELSE "",
                Extra |-> reply.q.Extra]
      IN [err |-> "nil",
          reply |-> [MessageLength |->
                        WriteOneLength(reply.MessageLength, DocLen(reply.q), DocLen(q)),
                     q |-> q],
          written |-> WriteOneLength(reply.MessageLength, DocLen(reply.q), DocLen(q))]

InitRewrite ==
    /\ rwPc = "ready"
    /\ rwReply \in IsMasterReplies
    /\ rwMapper \in [RealAddrs -> {"mapped", "ignored", "unknown"}]
    /\ rwSameIM = TRUE
    /\ rwFault = "none"
    /\ rwClient = [err |-> "nil", reply |-> NoIsMaster, written |-> 0]

\* the call succeeds
RewriteOk ==
    /\ rwPc = "ready"
    /\ Rewrite(rwReply, rwMapper, TRUE, "none").err = "nil"
    /\ rwClient' = Rewrite(rwReply, rwMapper, TRUE, "none")
    /\ rwPc' = "done"
    /\ UNCHANGED <<rwReply, rwMapper, rwSameIM, rwFault>>
    /\ RewriteFrame

\* the call returns an error
RewriteFails ==
    /\ rwPc = "ready"
    /\ \E sameIM \in BOOLEAN, fault \in {"none", "ReadOne"} \cup WriteFaults :
         /\ Rewrite(rwReply, rwMapper, sameIM, fault).err # "nil"
         /\ rwSameIM' = sameIM
         /\ rwFault' = fault
         /\ rwClient' = Rewrite(rwReply, rwMapper, sameIM, fault)
    /\ rwPc' = "done"
    /\ UNCHANGED <<rwReply, rwMapper>>
    /\ RewriteFrame

NextRewrite ==
    \/ RewriteOk
    \/ RewriteFails

\* the rewriter alone
InitOnlyRewrite ==
    InitRewrite /\ PoolParked /\ SessionParked /\ RestartParked /\ OthersParked

SpecRewrite == InitOnlyRewrite /\ [][NextRewrite]_vars

(***************************************************************************)
(* Properties of the isMaster rewriter.                                    *)
(***************************************************************************)
Rewritten == rwPc = "done" /\ rwClient.err = "nil"

ProxyAddrs == {"1111", "22", "3"}

C10_PassivesMapped ==
    Rewritten =>
      LET in == rwReply.q.Extra.passives
          res == rwClient.reply.q.Extra.passives
      IN /\ Len(res) <= Len(in)
         /\ \A i \in 1..Len(res) : res[i] \in ProxyAddrs /\ res[i] \notin RealAddrs

(***************************************************************************)
(* ReplSetGetStatusResponseRewriter.Rewrite.  The reply of the server is   *)
(* unmarshalled into replSetGetStatusResponse; a statusMember is its name  *)
(* and its stateStr ("" when the server sent none).  In the ProxyMapper an *)
(* ignored member is "ARBITER" when ignoredReal holds that state for it    *)
(* and "ignored" for any other state.                                      *)
(***************************************************************************)
ReplicaStateArbiter == "ARBITER"

MemberStates == {"PRIMARY", "ARBITER", ""}

StatusMembers == [name : RealAddrs, stateStr : MemberStates]

\* ReplicaSet.Proxy, with the state a ProxyMapperError carries
ProxyState(mapper, h) ==
    IF mapper[h] = "mapped" THEN [err |-> "nil", addr |-> ProxyAddr(h), State |-> ""]
    ELSE IF mapper[h] \in {"ignored", ReplicaStateArbiter}
      THEN [err |-> "ProxyMapperError", addr |-> "", State |-> mapper[h]]
    ELSE [err |-> "err", addr |-> "", State |-> ""]

\* the length of the BSON encoding of a statusMember
MemberLen(m) ==
    5 + (1 + 5 + 4 + StrLen(m.name) + 1)
      + (IF m.stateStr = "" THEN 0 ELSE 1 + 9 + 4 + 7 + 1)

RECURSIVE MembersLen(_)
MembersLen(ms) ==
    IF ms = <<>> THEN 5
    ELSE (1 + 2 + MemberLen(Head(ms))) + MembersLen(Tail(ms))

\* len(bson.Marshal(q)) for a replSetGetStatusResponse
StatusDocLen(q) == 5 + 1 + 8 + MembersLen(q.Members)

StatusReplies ==
    { [MessageLength |-> headerLen + prefixLen + StatusDocLen(q), q |-> q] :
        q \in [Members : SeqsUpTo(StatusMembers, MaxMembers)] }

NoStatus == [MessageLength |-> 0, q |-> [Members |-> <<>>]]

RECURSIVE NewMembersKeepingArbiters(_, _)
NewMembersKeepingArbiters(mapper, ms) ==
    IF ms = <<>> THEN <<>>
    ELSE IF ProxyState(mapper, Head(ms).name).err = "nil"
      THEN <<[Head(ms) EXCEPT !.name = ProxyState(mapper, Head(ms).name).addr]>>
             \o NewMembersKeepingArbiters(mapper, Tail(ms))
    ELSE IF ProxyState(mapper, Head(ms).name).State = ReplicaStateArbiter
      THEN <<Head(ms)>> \o NewMembersKeepingArbiters(mapper, Tail(ms))
    ELSE NewMembersKeepingArbiters(mapper, Tail(ms))

\* the loop over q.Members
RECURSIVE NewMembers(_, _)
NewMembers(mapper, ms) ==
    IF ms = <<>> THEN <<>>
    ELSE IF ProxyState(mapper, Head(ms).name).err = "nil"
      THEN <<[Head(ms) EXCEPT !.name = ProxyState(mapper, Head(ms).name).addr]>>
             \o NewMembers(mapper, Tail(ms))
    ELSE NewMembers(mapper, Tail(ms))

\* the members the loop logs with "dropping member"
RECURSIVE Dropped(_, _)
Dropped(mapper, ms) ==
    IF ms = <<>> THEN <<>>
    ELSE IF ProxyState(mapper, Head(ms).name).err = "ProxyMapperError"
            /\ ProxyState(mapper, Head(ms).name).State # ReplicaStateArbiter
      THEN <<Head(ms).name>> \o Dropped(mapper, Tail(ms))
    ELSE Dropped(mapper, Tail(ms))

\* ReplSetGetStatusResponseRewriter.Rewrite
StatusRewrite(reply, mapper, sameRS, fault) ==
    IF fault = "ReadOne" THEN [err |-> "err", reply |-> NoStatus, log |-> <<>>, written |-> 0]
    ELSE IF ~sameRS THEN [err |-> "errRSChanged", reply |-> NoStatus, log |-> <<>>, written |-> 0]
    ELSE IF \E i \in 1..Len(reply.q.Members) :
               ProxyState(mapper, reply.q.Members[i].name).err = "err"
      THEN [err |-> "err", reply |-> NoStatus,
            log |-> Dropped(mapper,
                      SubSeq(reply.q.Members, 1,
                        (CHOOSE i \in 1..Len(reply.q.Members) :
                           /\ ProxyState(mapper, reply.q.Members[i].name).err = "err"
                           /\ \A j \in 1..(i - 1) :
                                ProxyState(mapper, reply.q.Members[j].name).err # "err"))),
            written |-> 0]
    ELSE IF fault \in WriteFaults
      THEN [err |-> "err", reply |-> NoStatus, log |-> Dropped(mapper, reply.q.Members),
            written |-> WriteOneWritten(fault)]
    ELSE
      LET q == [Members |-> NewMembers(mapper, reply.q.Members)]
      IN [err |-> "nil",
          reply |-> [MessageLength |->
                        WriteOneLength(reply.MessageLength, StatusDocLen(reply.q),
                                       StatusDocLen(q)),
                     q |-> q],
          log |-> Dropped(mapper, reply.q.Members),
          written |-> WriteOneLength(reply.MessageLength, StatusDocLen(reply.q),
                                     StatusDocLen(q))]

InitStatus ==
    /\ rwPc = "ready"
    /\ rwReply \in StatusReplies
    /\ rwMapper \in [RealAddrs -> {"mapped", "ignored", ReplicaStateArbiter, "unknown"}]
    /\ rwSameIM = TRUE
    /\ rwFault = "none"
    /\ rwClient = [err |-> "nil", reply |-> NoStatus, log |-> <<>>, written |-> 0]

\* one call of Rewrite; rwSameIM holds what SameRS answered
RewriteStatus ==
    /\ rwPc = "ready"
    /\ \E sameRS \in BOOLEAN, fault \in {"none", "ReadOne"} \cup WriteFaults :
         /\ rwSameIM' = sameRS
         /\ rwFault' = fault
         /\ rwClient' = StatusRewrite(rwReply, rwMapper, sameRS, fault)
    /\ rwPc' = "done"
    /\ UNCHANGED <<rwReply, rwMapper>>
    /\ RewriteFrame

NextStatus == RewriteStatus

\* the replSetGetStatus rewriter alone
InitOnlyStatus ==
    InitStatus /\ PoolParked /\ SessionParked /\ RestartParked /\ OthersParked

SpecStatus == InitOnlyStatus /\ [][NextStatus]_vars

(***************************************************************************)
(* Properties of the replSetGetStatus rewriter.                            *)
(***************************************************************************)
\* C11: when SameRS holds, no read or write fails and every member is in the
\* proxy map or in the ignored table, the rewrite succeeds; the members
\* delivered are the members that are in the proxy map, in the order the
\* server sent them, each with its name replaced by its proxy address and its
\* stateStr unchanged, whatever that state is; members in the ignored table
\* are left out, and exactly those ignored with a state other than ARBITER
\* are logged.
C11_StatusMembersMapped ==
    (/\ rwPc = "done"
     /\ rwSameIM
     /\ rwFault = "none"
     /\ \A i \in 1..Len(rwReply.q.Members) :
           rwMapper[rwReply.q.Members[i].name] # "unknown")
    => LET in == rwReply.q.Members
           res == rwClient.reply.q.Members
           kept == SelectSeq(in, LAMBDA m : rwMapper[m.name] = "mapped")
           noisy == SelectSeq(in, LAMBDA m : rwMapper[m.name] = "ignored")
       IN /\ rwClient.err = "nil"
          /\ Len(res) = Len(kept)
          /\ \A i \in 1..Len(kept) :
                /\ res[i].name = ProxyAddr(kept[i].name)
                /\ res[i].stateStr = kept[i].stateStr
          /\ Len(rwClient.log) = Len(noisy)
          /\ \A i \in 1..Len(noisy) : rwClient.log[i] = noisy[i].name

\* a PRIMARY and a mapped ARBITER are delivered, ignored members are not
C11_Witness ==
    /\ rwPc = "done"
    /\ rwClient.err = "nil"
    /\ Len(rwReply.q.Members) = 2
    /\ rwMapper[rwReply.q.Members[1].name] = ReplicaStateArbiter
    /\ rwMapper[rwReply.q.Members[2].name] = "mapped"
    /\ rwReply.q.Members[2].stateStr = "ARBITER"
    /\ Len(rwClient.reply.q.Members) = 1
    /\ rwClient.reply.q.Members[1].stateStr = "ARBITER"
    /\ rwClient.log = <<>>

(***************************************************************************)
(* Both rewriters: one call of either Rewrite.                             *)
(***************************************************************************)
\* the reply is one to isMaster
IsMasterCall == "Hosts" \in DOMAIN rwReply.q

NextRewriters ==
    \/ IsMasterCall /\ NextRewrite
    \/ ~IsMasterCall /\ NextStatus

InitOnlyRewriters ==
    (InitRewrite \/ InitStatus) /\ PoolParked /\ SessionParked /\ RestartParked
       /\ OthersParked

SpecRewriters == InitOnlyRewriters /\ [][NextRewriters]_vars

\* C32 as stated: when the reply read differs from the snapshot the rewriter
\* returns errRSChanged, whatever the mapper would answer for its hosts, and
\* whenever a rewriter returns an error nothing has been written to the client.
C32_ChangedBeforeMappingNothingWritten ==
    rwPc = "done" =>
       /\ (~rwSameIM /\ rwFault # "ReadOne") => rwClient.err = "errRSChanged"
       /\ rwClient.err # "nil" => rwClient.written = 0

\* C32 amended: when the reply read differs from the snapshot the rewriter
\* returns errRSChanged, whatever the mapper would answer for its hosts, with
\* nothing written to the client; nothing is written either when the read or
\* a mapping fails.  Only when a write to the client fails after the header
\* was written does a rewriter return an error with part of the reply
\* written, and never the whole reply.
C32_ChangedBeforeMappingWrittenOnlyByFailedWrite ==
    rwPc = "done" =>
       /\ (~rwSameIM /\ rwFault # "ReadOne") =>
              rwClient.err = "errRSChanged" /\ rwClient.written = 0
       /\ (rwClient.err # "nil" /\ rwClient.written # 0) =>
              /\ rwSameIM
              /\ rwFault \in {"WriteOnePrefix", "WriteOneDoc"}
              /\ rwClient.err = "err"
              /\ rwClient.written >= headerLen
              /\ rwClient.written <= headerLen + prefixLen
       /\ (rwClient.err # "nil" /\ rwFault \notin {"WriteOnePrefix", "WriteOneDoc"}) =>
              rwClient.written = 0

\* the isMaster reply differed from the snapshot and named a host that is
\* neither proxied nor ignored: errRSChanged was returned, nothing written
C32_Witness ==
    /\ rwPc = "done"
    /\ IsMasterCall
    /\ ~rwSameIM
    /\ rwFault = "none"
    /\ Len(rwReply.q.Hosts) >= 1
    /\ rwMapper[rwReply.q.Hosts[1]] = "unknown"
    /\ rwClient.err = "errRSChanged"
    /\ rwClient.written = 0

\* what the mapper answers for an address: no error for a proxied one, a
\* ProxyMapperError for an ignored one, another error for any other
MapperErr(h) ==
    IF rwMapper[h] = "mapped" THEN "nil"
    ELSE IF rwMapper[h] = "unknown" THEN "err"
    ELSE "ProxyMapperError"

\* C33: when the reply matches the snapshot and was read, a rewriter fails
\* with the mapper's error and writes nothing if a hosts entry or a member
\* name is neither proxied nor ignored, or if the primary or me is not
\* proxied, be it ignored; hosts and members in the ignored table alone never
\* make it fail.
C33_MappingFailuresFatal ==
    (rwPc = "done" /\ rwSameIM /\ rwFault # "ReadOne") =>
       IF IsMasterCall
         THEN LET q == rwReply.q
                  badHost == \E i \in 1..Len(q.Hosts) : MapperErr(q.Hosts[i]) = "err"
                  badPrimary == q.Primary # "" /\ MapperErr(q.Primary) # "nil"
                  badMe == q.Me # "" /\ MapperErr(q.Me) # "nil"
              IN /\ badHost => rwClient.err = "err" /\ rwClient.written = 0
                 /\ (~badHost /\ badPrimary) =>
                       rwClient.err = MapperErr(q.Primary) /\ rwClient.written = 0
                 /\ (~badHost /\ ~badPrimary /\ badMe) =>
                       rwClient.err = MapperErr(q.Me) /\ rwClient.written = 0
                 /\ (~badHost /\ ~badPrimary /\ ~badMe /\ rwFault = "none") =>
                       rwClient.err = "nil"
         ELSE LET ms == rwReply.q.Members
                  badMember == \E i \in 1..Len(ms) : MapperErr(ms[i].name) = "err"
              IN /\ badMember => rwClient.err = "err" /\ rwClient.written = 0
                 /\ (~badMember /\ rwFault = "none") => rwClient.err = "nil"

\* the primary of an isMaster reply is in the ignored table while its hosts
\* are proxied: the rewriter returned the ProxyMapperError and wrote nothing
C33_Witness ==
    /\ rwPc = "done"
    /\ IsMasterCall
    /\ rwSameIM
    /\ rwFault = "none"
    /\ Len(rwReply.q.Hosts) = 2
    /\ \A i \in 1..2 : rwMapper[rwReply.q.Hosts[i]] = "mapped"
    /\ rwReply.q.Primary # ""
    /\ rwMapper[rwReply.q.Primary] = "ignored"
    /\ rwClient.err = "ProxyMapperError"
    /\ rwClient.written = 0



(***************************************************************************)
(* ReplicaSetState.Equal.  A snapshot is lastRS (nil, or the set name and  *)
(* the members of a replSetGetStatusResponse) and lastIM (nil, or the      *)
(* hosts and primary of an isMasterResponse); the field nil says that the  *)
(* pointer is nil.  The receiver's set is the first of SetNames.           *)
(***************************************************************************)
NilRS == [nil |-> TRUE, Name |-> "", Members |-> <<>>]
NilIM == [nil |-> TRUE, Hosts |-> <<>>, Primary |-> ""]

SnapMembers ==
    { [Name |-> "a", State |-> "PRIMARY"],
      [Name |-> "a", State |-> "SECONDARY"],
      [Name |-> "b", State |-> "PRIMARY"] }

SnapAddrs == {"a", "b"}

\* replSetGetStatusResponse.Name, the "set" field
SetNames == {"rs0", "rs1"}

SnapRS ==
    {NilRS} \cup [nil : {FALSE}, Name : SetNames,
                  Members : SeqsUpTo(SnapMembers, MaxSnapMembers)]

SnapIM ==
    {NilIM} \cup [nil : {FALSE}, Hosts : SeqsUpTo(SnapAddrs, MaxSnapHosts),
                  Primary : SnapAddrs \cup {""}]

Snapshots == [lastRS : SnapRS, lastIM : SnapIM]

\* fmt.Sprintf("%s:%s", m.Name, m.State)
Sprintf(m) ==
    CASE m.Name = "a" /\ m.State = "PRIMARY" -> "a:PRIMARY"
      [] m.Name = "a" /\ m.State = "SECONDARY" -> "a:SECONDARY"
      [] m.Name = "b" /\ m.State = "PRIMARY" -> "b:PRIMARY"
      [] m.Name = "b" /\ m.State = "SECONDARY" -> "b:SECONDARY"

\* the place of a string in the order sort.Strings uses
StringRank(s) ==
    CASE s = "" -> 0
      [] s = "a" -> 1
      [] s = "a:PRIMARY" -> 2
      [] s = "a:SECONDARY" -> 3
      [] s = "b" -> 4
      [] s = "b:PRIMARY" -> 5
      [] s = "b:SECONDARY" -> 6

RECURSIVE Insert(_, _)
Insert(x, s) ==
    IF s = <<>> THEN <<x>>
    ELSE IF StringRank(x) <= StringRank(Head(s)) THEN <<x>> \o s
    ELSE <<Head(s)>> \o Insert(x, Tail(s))

Unsorted(s) == s

\* sort.Strings
RECURSIVE SortStrings(_)
SortStrings(s) == IF s = <<>> THEN <<>> ELSE Insert(Head(s), SortStrings(Tail(s)))

sameRSMembers(a, b) ==
    IF (a.nil \/ Len(a.Members) = 0) /\ (b.nil \/ Len(b.Members) = 0) THEN TRUE
    ELSE IF a.nil \/ b.nil THEN FALSE
    ELSE IF Len(a.Members) # Len(b.Members) THEN FALSE
    ELSE SortStrings([i \in 1..Len(a.Members) |-> Sprintf(a.Members[i])])
           = SortStrings([i \in 1..Len(b.Members) |-> Sprintf(b.Members[i])])

emptyIsMasterResponse == [nil |-> FALSE, Hosts |-> <<>>, Primary |-> ""]

sameIMMembers(a0, b0) ==
    IF a0.nil /\ b0.nil THEN TRUE
    ELSE LET a == IF a0.nil THEN emptyIsMasterResponse ELSE a0
             b == IF b0.nil THEN emptyIsMasterResponse ELSE b0
         IN IF Len(a.Hosts) # Len(b.Hosts) THEN FALSE
            ELSE Append(SortStrings(a.Hosts), a.Primary)
                   = Append(SortStrings(b.Hosts), b.Primary)

\* ReplicaSetState.Equal
Equal(r, o) == sameIMMembers(r.lastIM, o.lastIM) /\ sameRSMembers(r.lastRS, o.lastRS)

InitCompare ==
    /\ cmpPc = "ready"
    /\ cmpA \in {r \in Snapshots : r.lastRS.Name \in {"", "rs0"}}
    /\ cmpB = cmpA
    /\ cmpRes = FALSE

\* r.Equal(o)
Compare ==
    /\ cmpPc = "ready"
    /\ \E o \in Snapshots :
         /\ cmpB' = o
         /\ cmpRes' = Equal(cmpA, o)
    /\ cmpPc' = "done"
    /\ UNCHANGED cmpA
    /\ CompareFrame

NextCompare == Compare

\* Equal alone
InitOnlyCompare ==
    /\ InitCompare /\ PoolParked /\ SessionParked /\ RestartParked
    /\ rwPc = "parked" /\ rwReply = "none" /\ rwMapper = <<>> /\ rwSameIM = TRUE
    /\ rwFault = "none" /\ rwClient = "none"
    /\ DiscoverParked /\ AddParked /\ ExtraParked

SpecCompare == InitOnlyCompare /\ [][NextCompare]_vars

(***************************************************************************)
(* Properties of Equal.                                                    *)
(***************************************************************************)
\* the number of times each element occurs in a sequence
BagOf(s) ==
    [x \in {s[i] : i \in 1..Len(s)} |-> Cardinality({i \in 1..Len(s) : s[i] = x})]

MemberStrings(rs) ==
    [i \in 1..Len(rs.Members) |-> Sprintf(rs.Members[i])]

HostsOf(im) == im.Hosts

PrimaryOf(im) == im.Primary

\* C12 as stated: two snapshots are equal exactly when the multisets of their
\* member name:state strings are the same and the multisets of their hosts
\* with the primary added are the same.
C12_EqualIffMultisetsWithPrimary ==
    cmpPc = "done" =>
      (cmpRes <=>
         /\ BagOf(MemberStrings(cmpA.lastRS)) = BagOf(MemberStrings(cmpB.lastRS))
         /\ BagOf(Append(HostsOf(cmpA.lastIM), PrimaryOf(cmpA.lastIM)))
              = BagOf(Append(HostsOf(cmpB.lastIM), PrimaryOf(cmpB.lastIM))))

\* C12 amended: two snapshots are equal exactly when the multisets of their
\* member name:state strings are the same, the multisets of their hosts are the
\* same and their primaries are the same; nil counts as empty.
C12_EqualIffMultisetsAndPrimary ==
    cmpPc = "done" =>
      (cmpRes <=>
         /\ BagOf(MemberStrings(cmpA.lastRS)) = BagOf(MemberStrings(cmpB.lastRS))
         /\ BagOf(HostsOf(cmpA.lastIM)) = BagOf(HostsOf(cmpB.lastIM))
         /\ PrimaryOf(cmpA.lastIM) = PrimaryOf(cmpB.lastIM))

\* snapshots whose members and hosts are in different orders compare equal
C12_Witness ==
    /\ cmpPc = "done"
    /\ cmpRes
    /\ ~cmpA.lastRS.nil /\ ~cmpB.lastRS.nil
    /\ ~cmpA.lastIM.nil /\ ~cmpB.lastIM.nil
    /\ Len(cmpA.lastRS.Members) = 2
    /\ cmpA.lastRS.Members # cmpB.lastRS.Members
    /\ Len(cmpA.lastIM.Hosts) = 2
    /\ cmpA.lastIM.Hosts # cmpB.lastIM.Hosts

\* C34: two snapshots whose replSetGetStatus responses carry different set
\* names do not compare equal.
C34_DifferentSetsNeverEqual ==
    (/\ cmpPc = "done"
     /\ ~cmpA.lastRS.nil /\ ~cmpB.lastRS.nil
     /\ cmpA.lastRS.Name # cmpB.lastRS.Name) => ~cmpRes


(***************************************************************************)
(* NewReplicaSetState and ReplicaSetStateCreator.FromAddrs.  A seed is the *)
(* mongo found at an address: whether the dial succeeds, what it answers   *)
(* to replSetGetStatus (a response, errNotReplSet or another error) and    *)
(* what it answers to isMaster.                                            *)
(***************************************************************************)
errNotReplSet == "not running with --replSet"

NoRS == [nil |-> TRUE, Name |-> "", Members |-> <<>>]

RSNode(name, members, hosts, primary) ==
    [dial |-> TRUE, rs |-> "ok",
     lastRS |-> [nil |-> FALSE, Name |-> name, Members |-> members],
     im |-> "ok",
     lastIM |-> [nil |-> FALSE, Hosts |-> hosts, Primary |-> primary]]

Member(name, state, self) == [Name |-> name, State |-> state, Self |-> self]

DownNode ==
    [dial |-> FALSE, rs |-> "err", lastRS |-> NoRS, im |-> "err", lastIM |-> NilIM]

StandaloneNode ==
    [dial |-> TRUE, rs |-> errNotReplSet, lastRS |-> NoRS, im |-> "ok",
     lastIM |-> emptyIsMasterResponse]

\* the mongos a seed address can lead to
SeedNodes ==
    { DownNode,
      StandaloneNode,
      [StandaloneNode EXCEPT !.rs = "err"],
      [RSNode("rs", <<Member("a", "PRIMARY", TRUE), Member("b", "SECONDARY", FALSE)>>,
              <<"a", "b">>, "a") EXCEPT !.im = "err"],
      RSNode("rs", <<Member("a", "PRIMARY", TRUE), Member("b", "SECONDARY", FALSE)>>,
             <<"a", "b">>, "a"),
      RSNode("rs", <<Member("b", "SECONDARY", TRUE), Member("a", "PRIMARY", FALSE)>>,
             <<"b", "a">>, "a"),
      RSNode("rs", <<Member("a", "SECONDARY", TRUE), Member("b", "PRIMARY", FALSE)>>,
             <<"a", "b">>, "b"),
      RSNode("other", <<Member("b", "PRIMARY", TRUE), Member("a", "SECONDARY", FALSE)>>,
             <<"b", "a">>, "b"),
      RSNode("rs", <<Member("a", "PRIMARY", TRUE)>>, <<"a">>, "a"),
      RSNode("rs", <<Member("a", "SECONDARY", TRUE)>>, <<"a">>, ""),
      RSNode("rs", <<Member("a", "RECOVERING", TRUE)>>, <<"a">>, ""),
      RSNode("rs", <<Member("a", "PRIMARY", FALSE), Member("b", "STARTUP", TRUE)>>,
             <<"a", "b">>, "a") }

\* the address of the i-th seed
SeedAddr(i) == <<"seed1", "seed2", "seed3", "seed4", "seed5">>[i]

NoState == [nil |-> TRUE, lastRS |-> NoRS, lastIM |-> NilIM, singleAddr |-> ""]

\* NewReplicaSetState(addr), when the mongo at addr is n
NewReplicaSetState(addr, n) ==
    IF ~n.dial THEN [err |-> "dial", r |-> NoState]
    ELSE IF n.rs \notin {"ok", errNotReplSet}
      THEN [err |-> "replSetGetStatus", r |-> NoState]
    ELSE
      LET lastRS == IF n.rs = "ok" THEN n.lastRS ELSE NoRS
          singleAddr == IF n.rs = "ok" THEN "" ELSE addr
      IN IF n.im # "ok" THEN [err |-> "isMaster", r |-> NoState]
         ELSE IF /\ ~lastRS.nil
                 /\ Len(lastRS.Members) = 1
                 /\ (\/ lastRS.Members[1].State # "PRIMARY"
                     \/ lastRS.Members[1].State # "SECONDARY")
           THEN [err |-> "single node RS in bad state", r |-> NoState]
         ELSE IF /\ ~lastRS.nil
                 /\ \E i \in 1..Len(lastRS.Members) :
                      lastRS.Members[i].Self /\ lastRS.Members[i].State = "STARTUP"
           THEN [err |-> "node is busy starting up", r |-> NoState]
         ELSE [err |-> "nil",
               r |-> [nil |-> FALSE, lastRS |-> lastRS, lastIM |-> n.lastIM,
                      singleAddr |-> singleAddr]]

IgnoredNever(ar, replicaSetName) == FALSE

\* the seeds FromAddrs ignores because of replicaSetName
Ignored(ar, replicaSetName) ==
    replicaSetName # "" /\ (ar.lastRS.nil \/ ar.lastRS.Name # replicaSetName)

ExpectingRSNever(r, addrs) == FALSE

\* the check for a single node where a replica set was expected
ExpectingRS(r, addrs) == r.singleAddr # "" /\ Len(addrs) # 1

ReplicaSetNames == {"", "rs"}

InitDiscover ==
    /\ dNodes \in SeqsUpTo(SeedNodes, MaxSeeds) \ {<<>>}
    /\ dName \in ReplicaSetNames
    /\ dIdx = 0
    /\ dRef = NoState
    /\ dRes = "running"
    /\ dSeen = <<>>

\* one iteration of the loop over addrs
FromAddrsSeed ==
    /\ dRes = "running"
    /\ dIdx < Len(dNodes)
    /\ dIdx' = dIdx + 1
    /\ LET res == NewReplicaSetState(SeedAddr(dIdx + 1), dNodes[dIdx + 1])
           ar == res.r
       IN IF res.err # "nil"
            THEN /\ dSeen' = Append(dSeen, [err |-> res.err, did |-> "failed"])
                 /\ UNCHANGED <<dRef, dRes>>
          ELSE IF Ignored(ar, dName)
            THEN /\ dSeen' = Append(dSeen, [err |-> "nil", did |-> "ignored"])
                 /\ UNCHANGED <<dRef, dRes>>
          ELSE IF dRef.nil
            THEN /\ dRef' = ar
                 /\ dSeen' = Append(dSeen, [err |-> "nil", did |-> "first"])
                 /\ UNCHANGED dRes
          ELSE IF Equal(dRef, ar)
            THEN /\ dSeen' = Append(dSeen, [err |-> "nil", did |-> "equal"])
                 /\ UNCHANGED <<dRef, dRes>>
          ELSE   /\ dSeen' = Append(dSeen, [err |-> "nil", did |-> "conflicting"])
                 /\ dRes' = "conflicting ReplicaSetState"
                 /\ UNCHANGED dRef
    /\ UNCHANGED <<dNodes, dName>>
    /\ DiscoverFrame

\* the checks after the loop
FromAddrsReturn ==
    /\ dRes = "running"
    /\ dIdx = Len(dNodes)
    /\ dRes' = IF dRef.nil THEN "could not connect to any provided addresses"
               ELSE IF ExpectingRS(dRef, dNodes)
                 THEN "was expecting it to be in a replica set"
               ELSE "nil"
    /\ UNCHANGED <<dNodes, dName, dIdx, dRef, dSeen>>
    /\ DiscoverFrame

NextDiscover ==
    \/ FromAddrsSeed
    \/ FromAddrsReturn

\* FromAddrs alone
InitOnlyDiscover ==
    /\ InitDiscover /\ PoolParked /\ SessionParked /\ RestartParked
    /\ rwPc = "parked" /\ rwReply = "none" /\ rwMapper = <<>> /\ rwSameIM = TRUE
    /\ rwFault = "none" /\ rwClient = "none"
    /\ CompareParked /\ AddParked /\ ExtraParked

SpecDiscover == InitOnlyDiscover /\ [][NextDiscover]_vars

(***************************************************************************)
(* Properties of FromAddrs and NewReplicaSetState.                         *)
(***************************************************************************)
\* the snapshot the i-th seed gives, and the error in its place
SnapshotOf(i) == NewReplicaSetState(SeedAddr(i), dNodes[i]).r
SnapshotErr(i) == NewReplicaSetState(SeedAddr(i), dNodes[i]).err

\* the seeds among the first n that give a snapshot of the set asked for
Yielding(n) ==
    {i \in 1..n :
       /\ SnapshotErr(i) = "nil"
       /\ dName # "" => (~SnapshotOf(i).lastRS.nil /\ SnapshotOf(i).lastRS.Name = dName)}

\* C15: the reference is the snapshot of the first seed that gave one; a
\* later seed whose snapshot is not equal to the reference ends FromAddrs with
\* the conflicting ReplicaSetState error at that seed, and nothing else does;
\* a seed that cannot be dialled or gives no snapshot changes neither the
\* reference nor the result; FromAddrs fails when no seed gave a snapshot.
C15_FirstSeedIsReference ==
    LET Y == Yielding(dIdx)
        first == CHOOSE i \in Y : \A j \in Y : i <= j
        Conflicts == {i \in Y \ {first} : ~Equal(SnapshotOf(first), SnapshotOf(i))}
    IN /\ (Y = {}) <=> dRef.nil
       /\ Y # {} =>
            /\ dRef = SnapshotOf(first)
            /\ Conflicts \subseteq {dIdx}
            /\ (dRes = "conflicting ReplicaSetState") <=> (Conflicts # {})
       /\ Y = {} =>
            /\ dRes \in {"running", "could not connect to any provided addresses"}
            /\ dRes = "running" <=> ENABLED NextDiscover
       /\ dRes \in {"nil", "was expecting it to be in a replica set"} =>
            (Y # {} /\ dIdx = Len(dNodes))

\* FromAddrs met a seed without a snapshot, took the next seed as the
\* reference and failed on the third, whose snapshot differs
C15_Witness ==
    /\ dRes = "conflicting ReplicaSetState"
    /\ Len(dNodes) = 3
    /\ dIdx = 3
    /\ dSeen[1].did = "failed"
    /\ dSeen[2].did = "first"
    /\ dSeen[3].did = "conflicting"

\* C16: when the loop over the seeds ended with the snapshot of a single node
\* and more than one seed address was given, FromAddrs returns the "was
\* expecting it to be in a replica set" error, whatever the other seeds did.
C16_SingleNodeWhenExpectingRS ==
    (/\ dRes \notin {"running", "conflicting ReplicaSetState"}
     /\ ~dRef.nil
     /\ dRef.singleAddr # ""
     /\ Len(dNodes) > 1)
    => dRes = "was expecting it to be in a replica set"

\* two seeds, a single node and an address nothing listens on
C16_Witness ==
    /\ dRes = "was expecting it to be in a replica set"
    /\ Len(dNodes) = 2
    /\ dNodes[1] = StandaloneNode
    /\ dNodes[2] = DownNode
    /\ dRef.singleAddr = SeedAddr(1)

\* C17: NewReplicaSetState on a replica set with exactly one member fails
\* when the state of that member is neither PRIMARY nor SECONDARY and
\* succeeds when it is PRIMARY or SECONDARY.
C17_SoleMemberState ==
    \A i \in 1..dIdx :
       (/\ dNodes[i].dial
        /\ dNodes[i].rs = "ok"
        /\ dNodes[i].im = "ok"
        /\ Len(dNodes[i].lastRS.Members) = 1)
       => ((dSeen[i].err # "nil")
             <=> dNodes[i].lastRS.Members[1].State \notin {"PRIMARY", "SECONDARY"})

(***************************************************************************)
(* ReplicaSet.Start and ReplicaSet.add: the maps between proxy addresses   *)
(* and mongo addresses.  A Go map is a function on the set of its keys.    *)
(*   new      the ReplicaSet was made, Start was not called                *)
(*   adding   in Start, in the loop over healthyAddrs                      *)
(*   started  Start returned nil                                           *)
(*   failed   Start returned an error                                      *)
(***************************************************************************)
EmptyMap == [k \in {} |-> ""]

\* m[k] = v
MapSet(m, k, v) == [x \in DOMAIN m \cup {k} |-> IF x = k THEN v ELSE m[x]]

\* _, ok := m[k]
MapHas(m, k) == k \in DOMAIN m

AddProxyAddrs == {"1", "3", "5"}
AddMongoAddrs == {"2", "4", "6"}
AddProxies == [ProxyAddr : AddProxyAddrs, MongoAddr : AddMongoAddrs]

\* the states of the members of lastState.lastRS
AddMemberStates == {"PRIMARY", "SECONDARY", "ARBITER"}

\* the snapshots FromAddrs returns: of a replica set, or of a single node
\* (singleAddr set, lastRS nil)
StartStates ==
    [singleAddr : {""}, nil : {FALSE},
     Members : SeqsUpTo([Name : AddMongoAddrs, State : AddMemberStates],
                        MaxStartMembers)]
    \cup [singleAddr : AddMongoAddrs, nil : {TRUE}, Members : {<<>>}]

NoStartState == [singleAddr |-> "", nil |-> TRUE, Members |-> <<>>]

\* (variant used to test C40: only the primary is taken for healthy)
AddrsPrimaryOnly(r) ==
    IF r.singleAddr # "" THEN <<r.singleAddr>>
    ELSE LET healthy == SelectSeq(r.Members, LAMBDA m : m.State = "PRIMARY")
         IN [i \in 1..Len(healthy) |-> healthy[i].Name]

\* ReplicaSetState.Addrs
Addrs(r) ==
    IF r.singleAddr # "" THEN <<r.singleAddr>>
    ELSE LET healthy == SelectSeq(r.Members,
                                  LAMBDA m : m.State = "PRIMARY" \/ m.State = "SECONDARY")
         IN [i \in 1..Len(healthy) |-> healthy[i].Name]

NoMaps == [proxyToReal |-> EmptyMap, realToProxy |-> EmptyMap, proxies |-> {}]
NoAdd == [p |-> [ProxyAddr |-> "", MongoAddr |-> ""], err |-> "none",
          before |-> NoMaps, after |-> NoMaps]

addUnchecked(m, p) ==
    [err |-> "nil",
     maps |-> [proxyToReal |-> MapSet(m.proxyToReal, p.ProxyAddr, p.MongoAddr),
               realToProxy |-> MapSet(m.realToProxy, p.MongoAddr, p.ProxyAddr),
               proxies |-> m.proxies \cup {p.ProxyAddr}]]

\* ReplicaSet.add
add(m, p) ==
    IF MapHas(m.proxyToReal, p.ProxyAddr)
      THEN [err |-> "proxy already used in ReplicaSet", maps |-> m]
    ELSE IF MapHas(m.realToProxy, p.MongoAddr)
      THEN [err |-> "mongo already exists in ReplicaSet", maps |-> m]
    ELSE [err |-> "nil",
          maps |-> [proxyToReal |-> MapSet(m.proxyToReal, p.ProxyAddr, p.MongoAddr),
                    realToProxy |-> MapSet(m.realToProxy, p.MongoAddr, p.ProxyAddr),
                    proxies |-> m.proxies \cup {p.ProxyAddr}]]

\* the three maps of the ReplicaSet
CurrentMaps ==
    [proxyToReal |-> aProxyToReal, realToProxy |-> aRealToProxy, proxies |-> aProxies]

\* r.ignoredReal after the loop over lastRS.Members: every member without a
\* proxy, with the state of its last entry
IgnoredFrom(members, realToProxyNow) ==
    LET at(h) == {i \in 1..Len(members) : members[i].Name = h}
        lastAt(h) == CHOOSE i \in at(h) : \A j \in at(h) : j <= i
    IN [h \in {members[i].Name : i \in 1..Len(members)} \ DOMAIN realToProxyNow
          |-> members[lastAt(h)].State]

\* ReplicaSet.Proxy
ReplicaSetProxy(h) ==
    IF MapHas(aRealToProxy, h) THEN [err |-> "nil", addr |-> aRealToProxy[h], State |-> ""]
    ELSE IF MapHas(aIgnored, h)
      THEN [err |-> "ProxyMapperError", addr |-> "", State |-> aIgnored[h]]
    ELSE [err |-> "not in ReplicaSet", addr |-> "", State |-> ""]

InitAdd ==
    /\ aPc = "new"
    /\ aProxyToReal = EmptyMap
    /\ aRealToProxy = EmptyMap
    /\ aProxies = {}
    /\ aIgnored = EmptyMap
    /\ aLast = NoAdd
    /\ aState = NoStartState

\* Start makes the maps and takes the snapshot; it is called once by the
\* process and again by Restart.  It returns an error when FromAddrs fails
\* or no member is healthy.
StartMakeMaps ==
    /\ aPc \in {"new", "started"}
    /\ aProxyToReal' = EmptyMap
    /\ aRealToProxy' = EmptyMap
    /\ aProxies' = {}
    /\ aIgnored' = EmptyMap
    /\ aLast' = NoAdd
    /\ \/ /\ aPc' = "failed"
          /\ UNCHANGED aState
       \/ \E r \in StartStates :
            /\ aState' = r
            /\ aPc' = IF Len(Addrs(r)) = 0 THEN "failed" ELSE "adding"
    /\ AddFrame

\* one iteration of the loop over healthyAddrs: newListener, then r.add(p);
\* after k iterations k proxies are registered
StartAddProxy ==
    /\ aPc = "adding"
    /\ Cardinality(aProxies) < MaxProxies
    /\ Cardinality(aProxies) < Len(Addrs(aState))
    /\ \E p \in AddProxies :
         /\ p.MongoAddr = Addrs(aState)[Cardinality(aProxies) + 1]
         /\ LET res == add(CurrentMaps, p)
            IN /\ aProxyToReal' = res.maps.proxyToReal
               /\ aRealToProxy' = res.maps.realToProxy
               /\ aProxies' = res.maps.proxies
               /\ aLast' = [p |-> p, err |-> res.err, before |-> CurrentMaps,
                            after |-> res.maps]
               /\ aPc' = IF res.err = "nil" THEN "adding" ELSE "failed"
    /\ UNCHANGED <<aIgnored, aState>>
    /\ AddFrame

\* the rest of Start: unless lastRS is nil the members without a proxy are
\* ignored; the proxies are started
StartIgnored ==
    /\ aPc = "adding"
    /\ Cardinality(aProxies) = Len(Addrs(aState))
    /\ aIgnored' = IF aState.nil THEN aIgnored
                    ELSE IgnoredFrom(aState.Members, aRealToProxy)
    /\ \E ok \in BOOLEAN : aPc' = IF ok THEN "started" ELSE "failed"
    /\ UNCHANGED <<aProxyToReal, aRealToProxy, aProxies, aLast, aState>>
    /\ AddFrame

NextAdd ==
    \/ StartMakeMaps
    \/ StartAddProxy
    \/ StartIgnored

\* the maps alone
InitOnlyAdd ==
    /\ InitAdd /\ PoolParked /\ SessionParked /\ RestartParked
    /\ rwPc = "parked" /\ rwReply = "none" /\ rwMapper = <<>> /\ rwSameIM = TRUE
    /\ rwFault = "none" /\ rwClient = "none"
    /\ CompareParked /\ DiscoverParked /\ ExtraParked

SpecAdd == InitOnlyAdd /\ [][NextAdd]_vars

(***************************************************************************)
(* Properties of the maps.                                                 *)
(***************************************************************************)
\* C18: realToProxy and proxyToReal are inverses of each other and the proxy
\* table has the keys of proxyToReal; an add whose proxy address or mongo
\* address was present returned an error and left the three maps as they
\* were; no mongo address has a proxy and is ignored as well.
C18_MapsAreInverse ==
    /\ \A p \in DOMAIN aProxyToReal :
         /\ aProxyToReal[p] \in DOMAIN aRealToProxy
         /\ aRealToProxy[aProxyToReal[p]] = p
    /\ \A h \in DOMAIN aRealToProxy :
         /\ aRealToProxy[h] \in DOMAIN aProxyToReal
         /\ aProxyToReal[aRealToProxy[h]] = h
    /\ aProxies = DOMAIN aProxyToReal
    /\ (\/ aLast.p.ProxyAddr \in DOMAIN aLast.before.proxyToReal
        \/ aLast.p.MongoAddr \in DOMAIN aLast.before.realToProxy)
         => (aLast.err # "nil" /\ aLast.after = aLast.before)
    /\ DOMAIN aRealToProxy \cap DOMAIN aIgnored = {}

\* with one mapping in place, an add for the same mongo address under another
\* proxy address failed
C18_Witness ==
    /\ aLast.err = "mongo already exists in ReplicaSet"
    /\ Cardinality(DOMAIN aProxyToReal) = 1
    /\ aLast.p.ProxyAddr \notin DOMAIN aProxyToReal
    /\ aLast.p.MongoAddr \in DOMAIN aRealToProxy

\* C40: once Start has returned nil on a snapshot of a replica set, every
\* name in the member list is a key of exactly one of realToProxy and
\* ignoredReal: of realToProxy when a member of that name is PRIMARY or
\* SECONDARY, each such name with a proxy address of its own, and otherwise
\* of ignoredReal with the state of a member of that name; ReplicaSet.Proxy
\* returns for it a proxy address or a ProxyMapperError with that state, and
\* never the error of an address that is not in the replica set.
C40_MembersMappedOrIgnored ==
    (aPc = "started" /\ ~aState.nil) =>
       \A i \in 1..Len(aState.Members) :
          LET h == aState.Members[i].Name
              states == {aState.Members[j].State :
                           j \in {k \in 1..Len(aState.Members) :
                                    aState.Members[k].Name = h}}
          IN /\ MapHas(aRealToProxy, h) # MapHas(aIgnored, h)
             /\ MapHas(aRealToProxy, h) <=> states \cap {"PRIMARY", "SECONDARY"} # {}
             /\ MapHas(aRealToProxy, h) =>
                  /\ ReplicaSetProxy(h).err = "nil"
                  /\ ReplicaSetProxy(h).addr \in aProxies
                  /\ \A g \in DOMAIN aRealToProxy :
                        aRealToProxy[g] = aRealToProxy[h] => g = h
             /\ MapHas(aIgnored, h) =>
                  /\ ReplicaSetProxy(h).err = "ProxyMapperError"
                  /\ ReplicaSetProxy(h).State \in states
             /\ ReplicaSetProxy(h).err # "not in ReplicaSet"

\* Start returned nil with a secondary behind a proxy and an arbiter ignored
C40_Witness ==
    /\ aPc = "started"
    /\ ~aState.nil
    /\ \E i, j \in 1..Len(aState.Members) :
         /\ aState.Members[i].State = "SECONDARY"
         /\ aState.Members[j].State = "ARBITER"
         /\ aState.Members[i].Name # aState.Members[j].Name
         /\ ReplicaSetProxy(aState.Members[i].Name).err = "nil"
         /\ ReplicaSetProxy(aState.Members[j].Name).err = "ProxyMapperError"


(***************************************************************************)
(* ReplicaSet.stop and Proxy.stop.  Every call of ReplicaSet.stop runs     *)
(* p.stop(hard) for each proxy in its own goroutine and returns when all   *)
(* of them have returned.  p.stop is                                       *)
(*   new       not started                                                 *)
(*   listener  about to call p.ClientListener.Close()                      *)
(*   signal    about to close(p.closed)                                    *)
(*   wait      in p.wg.Wait()                                              *)
(*   pool      about to call p.serverPool.Close()                          *)
(*   closing   in p.serverPool.Close()                                     *)
(*   done      returned nil                                                *)
(*   failed    returned the error of the listener                          *)
(*   panicked  panicked in close(p.closed)                                 *)
(* The session of a proxy is in idleClientReadHeader (idleRead), in        *)
(* getServerConn (acquire), holds a connection (holding), holds one and    *)
(* executes a rewriter (rewriting), has returned (ended) or has panicked   *)
(* in Pool.Acquire (panicked).                                             *)
(***************************************************************************)
StopProxies == 1..NumStopProxies
StopCalls == 1..NumStopCalls

errListenerClosed == "use of closed network connection"

ListenerCloseAlwaysNil(l) == "nil"

\* the error of net.Listener.Close on a listener that is open or closed
ListenerClose(l) == IF l = "closed" THEN errListenerClosed ELSE "nil"

NoCall == [state |-> "new", hard |-> FALSE, err |-> "none", stoppedBefore |-> FALSE]

InitStop ==
    /\ stListener = [p \in StopProxies |-> "open"]
    /\ stClosed = [p \in StopProxies |-> 0]
    /\ stPool = [p \in StopProxies |-> "open"]
    /\ stPoolClose = [p \in StopProxies |-> 0]
    /\ stSess = [p \in StopProxies |-> "idleRead"]
    /\ stPc = [k \in StopCalls |-> [p \in StopProxies |-> "new"]]
    /\ stCall = [k \in StopCalls |-> NoCall]
    /\ stStart = [k \in StopCalls |-> "none"]

\* ReplicaSet.stop(hard) is called and starts a goroutine for each proxy
ReplicaSetStop(k) ==
    /\ stCall[k].state = "new"
    /\ \E hard \in BOOLEAN :
         stCall' = [stCall EXCEPT ![k] =
                      [state |-> "running", hard |-> hard, err |-> "none",
                       stoppedBefore |->
                         \E j \in StopCalls :
                            stCall[j].state = "returned" /\ stCall[j].err = "nil"]]
    /\ stPc' = [stPc EXCEPT ![k] = [p \in StopProxies |-> "listener"]]
    /\ UNCHANGED <<stListener, stClosed, stPool, stPoolClose, stSess>>
    /\ UNCHANGED stStart
    /\ StopFrame

\* p.ClientListener.Close()
StopListenerClose(k, p) ==
    /\ stPc[k][p] = "listener"
    /\ IF ListenerClose(stListener[p]) # "nil"
         THEN /\ stPc' = [stPc EXCEPT ![k][p] = "failed"]
              /\ UNCHANGED stListener
         ELSE /\ stListener' = [stListener EXCEPT ![p] = "closed"]
              /\ stPc' = [stPc EXCEPT ![k][p] = "signal"]
    /\ UNCHANGED <<stClosed, stPool, stPoolClose, stSess, stCall>>
    /\ UNCHANGED stStart
    /\ StopFrame

\* close(p.closed)
StopCloseSignal(k, p) ==
    /\ stPc[k][p] = "signal"
    /\ IF stClosed[p] > 0
         THEN /\ stPc' = [stPc EXCEPT ![k][p] = "panicked"]
              /\ UNCHANGED stClosed
         ELSE /\ stClosed' = [stClosed EXCEPT ![p] = 1]
              /\ stPc' = [stPc EXCEPT ![k][p] = IF stCall[k].hard THEN "pool" ELSE "wait"]
    /\ UNCHANGED <<stListener, stPool, stPoolClose, stSess, stCall>>
    /\ UNCHANGED stStart
    /\ StopFrame

\* p.wg.Wait() returns
StopWait(k, p) ==
    /\ stPc[k][p] = "wait"
    /\ stSess[p] = "ended"
    /\ stPc' = [stPc EXCEPT ![k][p] = "pool"]
    /\ UNCHANGED <<stListener, stClosed, stPool, stPoolClose, stSess, stCall>>
    /\ UNCHANGED stStart
    /\ StopFrame

\* p.serverPool.Close() is called
StopPoolCall(k, p) ==
    /\ stPc[k][p] = "pool"
    /\ stPoolClose' = [stPoolClose EXCEPT ![p] = @ + 1]
    /\ stPool' = [stPool EXCEPT ![p] = IF @ = "open" THEN "closing" ELSE @]
    /\ stPc' = [stPc EXCEPT ![k][p] = "closing"]
    /\ UNCHANGED <<stListener, stClosed, stSess, stCall>>
    /\ UNCHANGED stStart
    /\ StopFrame

\* p.serverPool.Close() returns: no connection is out
StopPoolReturn(k, p) ==
    /\ stPc[k][p] = "closing"
    /\ stSess[p] \notin {"holding", "rewriting"}
    /\ stPool' = [stPool EXCEPT ![p] = "closed"]
    /\ stPc' = [stPc EXCEPT ![k][p] = "done"]
    /\ UNCHANGED <<stListener, stClosed, stPoolClose, stSess, stCall>>
    /\ UNCHANGED stStart
    /\ StopFrame

\* wg.Wait() in ReplicaSet.stop returns; the error is one from errch
ReplicaSetStopReturn(k) ==
    /\ stCall[k].state = "running"
    /\ \A p \in StopProxies : stPc[k][p] \in {"done", "failed"}
    /\ stCall' = [stCall EXCEPT ![k].state = "returned",
                                ![k].err = IF \E p \in StopProxies : stPc[k][p] = "failed"
                                             THEN errListenerClosed ELSE "nil"]
    /\ UNCHANGED <<stListener, stClosed, stPool, stPoolClose, stSess, stPc>>
    /\ UNCHANGED stStart
    /\ StopFrame

\* the session of p reads a header, or its read ends without one
StopSessRead(p) ==
    /\ stSess[p] = "idleRead"
    /\ \E outcome \in ReadOutcomes, viaClosed \in {FALSE, stClosed[p] > 0} :
         stSess' = [stSess EXCEPT ![p] =
                      IF clientReadHeader(outcome, viaClosed) = "nil"
                        THEN "acquire" ELSE "ended"]
    /\ UNCHANGED <<stListener, stClosed, stPool, stPoolClose, stPc, stCall>>
    /\ UNCHANGED stStart
    /\ StopFrame

\* getServerConn returns
StopSessAcquire(p) ==
    /\ stSess[p] = "acquire"
    /\ \E ok \in BOOLEAN :
         stSess' = [stSess EXCEPT ![p] =
                      CASE stPool[p] = "open" -> IF ok THEN "holding" ELSE "ended"
                        [] stPool[p] = "closing" -> "ended"
                        [] stPool[p] = "closed" -> "panicked"]
    /\ UNCHANGED <<stListener, stClosed, stPool, stPoolClose, stPc, stCall>>
    /\ UNCHANGED stStart
    /\ StopFrame

\* the session, in proxyMessage, enters a rewriter, which asks the
\* ProxyMapper (ReplicaSet.Proxy) for r.realToProxy and r.ignoredReal
StopSessRewrite(p) ==
    /\ stSess[p] = "holding"
    /\ stSess' = [stSess EXCEPT ![p] = "rewriting"]
    /\ UNCHANGED <<stListener, stClosed, stPool, stPoolClose, stPc, stCall, stStart>>
    /\ StopFrame

\* the rewriter returns
StopSessRewritten(p) ==
    /\ stSess[p] = "rewriting"
    /\ stSess' = [stSess EXCEPT ![p] = "holding"]
    /\ UNCHANGED <<stListener, stClosed, stPool, stPoolClose, stPc, stCall, stStart>>
    /\ StopFrame

\* the session gives its connection back with Release or Discard
StopSessRelease(p) ==
    /\ stSess[p] = "holding"
    /\ \E next \in {"idleRead", "ended"} : stSess' = [stSess EXCEPT ![p] = next]
    /\ UNCHANGED <<stListener, stClosed, stPool, stPoolClose, stPc, stCall>>
    /\ UNCHANGED stStart
    /\ StopFrame

\* Restart: r.stop has returned, its error is logged and ignored, and r.Start
\* begins: it replaces the maps and fills them
RestartStart(k) ==
    /\ stCall[k].state = "returned"
    /\ stStart[k] = "none"
    /\ stStart' = [stStart EXCEPT ![k] = "writing"]
    /\ UNCHANGED <<stListener, stClosed, stPool, stPoolClose, stSess, stPc, stCall>>
    /\ StopFrame

\* r.Start has added the proxies and the ignored members to the maps
RestartStartWritten(k) ==
    /\ stStart[k] = "writing"
    /\ stStart' = [stStart EXCEPT ![k] = "written"]
    /\ UNCHANGED <<stListener, stClosed, stPool, stPoolClose, stSess, stPc, stCall>>
    /\ StopFrame

NextStop ==
    \/ \E k \in StopCalls : ReplicaSetStop(k)
    \/ \E k \in StopCalls, p \in StopProxies : StopListenerClose(k, p)
    \/ \E k \in StopCalls, p \in StopProxies : StopCloseSignal(k, p)
    \/ \E k \in StopCalls, p \in StopProxies : StopWait(k, p)
    \/ \E k \in StopCalls, p \in StopProxies : StopPoolCall(k, p)
    \/ \E k \in StopCalls, p \in StopProxies : StopPoolReturn(k, p)
    \/ \E k \in StopCalls : ReplicaSetStopReturn(k)
    \/ \E p \in StopProxies : StopSessRead(p)
    \/ \E p \in StopProxies : StopSessAcquire(p)
    \/ \E p \in StopProxies : StopSessRewrite(p)
    \/ \E p \in StopProxies : StopSessRewritten(p)
    \/ \E p \in StopProxies : StopSessRelease(p)
    \/ \E k \in StopCalls : RestartStart(k)
    \/ \E k \in StopCalls : RestartStartWritten(k)

\* ReplicaSet.stop alone
InitOnlyStop ==
    /\ InitStop /\ PoolParked /\ SessionParked /\ RestartParked
    /\ rwPc = "parked" /\ rwReply = "none" /\ rwMapper = <<>> /\ rwSameIM = TRUE
    /\ rwFault = "none" /\ rwClient = "none"
    /\ CompareParked /\ DiscoverParked /\ AddParked /\ AcceptParked

SpecStop == InitOnlyStop /\ [][NextStop]_vars

(***************************************************************************)
(* Properties of stop.                                                     *)
(***************************************************************************)
\* C21: a call of ReplicaSet.stop made after an earlier call returned nil
\* closes no p.closed and calls no serverPool.Close: each of its p.stop ends
\* at the listener, and it returns the error of the closed listener.  No
\* p.closed is closed twice and no pool has Close called twice.
C21_SecondStopOnlyFails ==
    /\ \A k \in StopCalls :
         stCall[k].stoppedBefore =>
            /\ \A p \in StopProxies : stPc[k][p] \in {"listener", "failed"}
            /\ stCall[k].state = "returned" => stCall[k].err = errListenerClosed
    /\ \A p \in StopProxies :
         /\ stClosed[p] <= 1
         /\ stPoolClose[p] <= 1
         /\ \A k \in StopCalls : stPc[k][p] # "panicked"

\* a second call returned the error after a first call returned nil
C21_Witness ==
    \E j, k \in StopCalls :
       /\ j # k
       /\ stCall[j].state = "returned" /\ stCall[j].err = "nil"
       /\ stCall[k].state = "returned" /\ stCall[k].stoppedBefore
       /\ stCall[k].err = errListenerClosed

\* C30: while Start writes the maps no session executes a rewriter, and once
\* a call of stop has returned no session holds a connection or can acquire
\* one: every pool is closing or closed.
C30_MapsWrittenWithSessionsQuiesced ==
    \A k \in StopCalls :
       /\ stStart[k] = "writing" =>
             \A p \in StopProxies : stSess[p] # "rewriting"
       /\ stCall[k].state = "returned" =>
             \A p \in StopProxies :
                /\ stSess[p] \notin {"holding", "rewriting"}
                /\ stPool[p] # "open"

\* the same for the calls of stop that returned nil
C30_AfterStopReturnedNil ==
    \A k \in StopCalls :
       (stCall[k].state = "returned" /\ stCall[k].err = "nil") =>
          \A p \in StopProxies :
             /\ stSess[p] \notin {"holding", "rewriting"}
             /\ stPool[p] # "open"

(***************************************************************************)
(* Proxy.clientAcceptLoop, the clientServeLoop goroutines it starts and    *)
(* one call of Proxy.stop.  All clients connect from one address.  A       *)
(* connection is                                                           *)
(*   none      not opened                                                  *)
(*   started   accepted: go p.clientServeLoop(c) has not run yet           *)
(*   serving   past the limit of connections per client, in the loop       *)
(*   rejected  clientServeLoop returned at the limit                       *)
(*   ended     clientServeLoop returned from the loop, its defer has run   *)
(* p.stop is new, listener, signal, wait, pool, returned or failed, as in  *)
(* the model of ReplicaSet.stop.  What the sessions do with the pool is    *)
(* left out: serverPool.Close is one step.                                 *)
(***************************************************************************)
AcConns == 1..MaxAccepts

\* (variant used to test C38: no client is over the limit)
incNeverOver(current) == FALSE

\* maxPerClientConnections.inc: current >= m.max
inc(current) == current >= MaxPerClient

NoStop == [pc |-> "new", hard |-> FALSE]

InitAccept ==
    /\ acListener = "open"
    /\ acLoop = "add"
    /\ acWg = 0
    /\ acCounts = 0
    /\ acConn = [c \in AcConns |-> "none"]
    /\ acClosed = FALSE
    /\ acStop = NoStop

\* p.wg.Add(1) at the top of the loop
AcceptAdd ==
    /\ acLoop = "add"
    /\ acWg' = acWg + 1
    /\ acLoop' = "accept"
    /\ UNCHANGED <<acListener, acCounts, acConn, acClosed, acStop>>
    /\ AcceptFrame

\* Accept returns a connection: go p.clientServeLoop(c)
AcceptConn ==
    /\ acLoop = "accept"
    /\ acListener = "open"
    /\ \E c \in AcConns :
         /\ acConn[c] = "none"
         /\ \A b \in AcConns : b < c => acConn[b] # "none"
         /\ acConn' = [acConn EXCEPT ![c] = "started"]
    /\ acLoop' = "add"
    /\ UNCHANGED <<acListener, acWg, acCounts, acClosed, acStop>>
    /\ AcceptFrame

\* Accept returns an error: p.wg.Done(), then break if the listener is
\* closed, continue otherwise
AcceptError ==
    /\ acLoop = "accept"
    /\ acWg' = acWg - 1
    /\ acLoop' = IF acListener = "closed" THEN "exited" ELSE "add"
    /\ UNCHANGED <<acListener, acCounts, acConn, acClosed, acStop>>
    /\ AcceptFrame

\* clientServeLoop up to its loop: at the limit it closes the connection and
\* returns; otherwise it counts the connection and registers the defer
ServeEnter(c) ==
    /\ acConn[c] = "started"
    /\ IF inc(acCounts)
         THEN /\ acConn' = [acConn EXCEPT ![c] = "rejected"]
              /\ UNCHANGED acCounts
         ELSE /\ acConn' = [acConn EXCEPT ![c] = "serving"]
              /\ acCounts' = acCounts + 1
    /\ UNCHANGED <<acListener, acLoop, acWg, acClosed, acStop>>
    /\ AcceptFrame

\* the deferred function of clientServeLoop: p.wg.Done(), c.Close(),
\* maxPerClientConnections.dec
ServeDefer(c) ==
    /\ acConn' = [acConn EXCEPT ![c] = "ended"]
    /\ acWg' = acWg - 1
    /\ acCounts' = acCounts - 1
    /\ UNCHANGED <<acListener, acLoop, acClosed, acStop>>
    /\ AcceptFrame

\* clientServeLoop returns because the client disconnected or a call failed
ServeDisconnect(c) ==
    /\ acConn[c] = "serving"
    /\ ~acClosed
    /\ ServeDefer(c)

\* clientServeLoop returns because p.closed woke its read
ServeWoken(c) ==
    /\ acConn[c] = "serving"
    /\ acClosed
    /\ ServeDefer(c)

\* p.stop(hard) is called
AcStopCall ==
    /\ acStop.pc = "new"
    /\ \E hard \in BOOLEAN : acStop' = [pc |-> "listener", hard |-> hard]
    /\ UNCHANGED <<acListener, acLoop, acWg, acCounts, acConn, acClosed>>
    /\ AcceptFrame

\* p.ClientListener.Close()
AcStopListener ==
    /\ acStop.pc = "listener"
    /\ IF ListenerClose(acListener) # "nil"
         THEN /\ acStop' = [acStop EXCEPT !.pc = "failed"]
              /\ UNCHANGED acListener
         ELSE /\ acListener' = "closed"
              /\ acStop' = [acStop EXCEPT !.pc = "signal"]
    /\ UNCHANGED <<acLoop, acWg, acCounts, acConn, acClosed>>
    /\ AcceptFrame

\* close(p.closed)
AcStopSignal ==
    /\ acStop.pc = "signal"
    /\ acClosed' = TRUE
    /\ acStop' = [acStop EXCEPT !.pc = IF acStop.hard THEN "pool" ELSE "wait"]
    /\ UNCHANGED <<acListener, acLoop, acWg, acCounts, acConn>>
    /\ AcceptFrame

\* p.wg.Wait() returns
AcStopWait ==
    /\ acStop.pc = "wait"
    /\ acWg = 0
    /\ acStop' = [acStop EXCEPT !.pc = "pool"]
    /\ UNCHANGED <<acListener, acLoop, acWg, acCounts, acConn, acClosed>>
    /\ AcceptFrame

\* p.serverPool.Close(); return nil
AcStopPool ==
    /\ acStop.pc = "pool"
    /\ acStop' = [acStop EXCEPT !.pc = "returned"]
    /\ UNCHANGED <<acListener, acLoop, acWg, acCounts, acConn, acClosed>>
    /\ AcceptFrame

NextAccept ==
    \/ AcceptAdd
    \/ AcceptConn
    \/ AcceptError
    \/ \E c \in AcConns : ServeEnter(c)
    \/ \E c \in AcConns : ServeDisconnect(c)
    \/ \E c \in AcConns : ServeWoken(c)
    \/ AcStopCall
    \/ AcStopListener
    \/ AcStopSignal
    \/ AcStopWait
    \/ AcStopPool

\* the accept loop of one proxy alone
InitOnlyAccept ==
    /\ InitAccept /\ PoolParked /\ SessionParked /\ RestartParked
    /\ rwPc = "parked" /\ rwReply = "none" /\ rwMapper = <<>> /\ rwSameIM = TRUE
    /\ rwFault = "none" /\ rwClient = "none"
    /\ CompareParked /\ DiscoverParked /\ AddParked /\ StopParked

SpecAccept == InitOnlyAccept /\ [][NextAccept]_vars

\* Every goroutine that can take a step takes it: the accept loop, a started
\* clientServeLoop, a session whose read p.closed wakes, and p.stop.  A
\* client need not disconnect and nobody need call p.stop.
AcceptFairness ==
    /\ WF_vars(AcceptAdd)
    /\ WF_vars(AcceptError /\ acListener = "closed")
    /\ \A c \in AcConns : WF_vars(ServeEnter(c))
    /\ \A c \in AcConns : WF_vars(ServeWoken(c))
    /\ WF_vars(AcStopListener)
    /\ WF_vars(AcStopSignal)
    /\ WF_vars(AcStopWait)
    /\ WF_vars(AcStopPool)

SpecAcceptLive == InitOnlyAccept /\ [][NextAccept]_vars /\ AcceptFairness

(***************************************************************************)
(* Properties of the accept loop.                                          *)
(***************************************************************************)
\* the accept loop has exited and every clientServeLoop it started returned
AcQuiet ==
    /\ acLoop = "exited"
    /\ \A c \in AcConns : acConn[c] \in {"none", "rejected", "ended"}

\* C38: a graceful stop that has closed the listener and p.closed returns:
\* every p.wg.Add(1) of the accept loop is undone by one p.wg.Done(), also
\* for a connection rejected at the limit of connections per client.
C38_GracefulStopReturns ==
    (acStop.pc = "wait") ~> (acStop.pc = "returned")

\* the same as a property of the states: once the accept loop has exited and
\* every clientServeLoop has returned, the counter of p.wg is zero
C38_AddsMatchedByDones == AcQuiet => acWg = 0

\* a graceful stop returned after a session was served and woken
C38_StopReturnedAfterSessions ==
    /\ acStop.pc = "returned"
    /\ ~acStop.hard
    /\ \E c \in AcConns : acConn[c] = "ended"

====
